---------------------------- MODULE Spec2Model ----------------------------
(***************************************************************************)
(* A model of the sentiment-driven responder of this repository:           *)
(* FixedSmartSentimentAgent (src/smart_sentiment_agent.py) and             *)
(* WorkingSentimentClient (src/working_sentiment_client.py).               *)
(*                                                                         *)
(* Conventions                                                             *)
(*   - A Python float is an integer number of TENTHS: polarity 0.3 is 3,   *)
(*     -1.0 is -10; subjectivity 0.7 is 7.  Comparisons against the        *)
(*     literals of the code are comparisons against the same literal in    *)
(*     tenths.                                                             *)
(*   - A Python dict is a TLA+ record holding exactly the dict's keys; a   *)
(*     missing key is a missing field (KeyError).  None is the record      *)
(*     None below.                                                         *)
(*   - A Python str is a TLA+ string; + is \o.  The module is ASCII, so    *)
(*     the emoji that opens each reply of the code (and the blank after    *)
(*     it) is left out of the literal.                                     *)
(*   - A call either returns a value or raises: Return(v) / Raise(e).      *)
(*   - datetime.now() is the logical clock `clock`, which ticks at every   *)
(*     read.                                                               *)
(***************************************************************************)
EXTENDS Integers, Sequences, FiniteSets, TLC

VARIABLES
    class,                 \* the class of the object the program constructed
    client,                \* self.client: None or a gradio Client
    conversation_history,  \* self.conversation_history of the agent
    analysis_history,      \* self.analysis_history of the client
    tasks,                 \* the process_user_input coroutines of the agent
    clock,                 \* number of datetime.now() reads so far
    ret,                   \* what the last completed call returned or raised
    pc,                    \* position of the single call of SpecRespond
    arg_sentiment_data,    \* SpecRespond: the sentiment_data argument
    arg_user_message,      \* SpecRespond: the user_message argument
    formatted,             \* SpecFormat: what the format calls returned so far
    batch,                 \* SpecBatch: the inputs of the last analyze_batch
    heap,                  \* SpecInstances: the objects, by their identity
    frame,                 \* the locals of the running loop or script
    trace                  \* what it read, ran or requested so far

vars == <<class, client, conversation_history, analysis_history, tasks, clock,
          ret, pc, arg_sentiment_data, arg_user_message,
          formatted, batch, heap, frame, trace>>

\* the variables of SpecFormat, SpecBatch, SpecInstances and of the chat
\* loop, the test scripts and the server tool (frame, trace), which the
\* other specifications leave alone
scenario_vars == <<formatted, batch, heap, frame, trace>>

-----------------------------------------------------------------------------
(* Bounds of the model *)

MaxCalls == 2        \* process_user_input calls made on the agent
MaxAnalyses == 3     \* measurements kept by the client

-----------------------------------------------------------------------------
(* Python values *)

None == [type |-> "NoneType"]

\* a gradio_client.Client connected to the space
TheClient == [type |-> "Client"]

\* `not x` of Python for the values a sentiment can take: None and the
\* empty dict are falsy, every other dict is truthy.
Truthy(x) == x # None /\ DOMAIN x # {}

Return(v) == [kind |-> "return", value |-> v]
Raise(e) == [kind |-> "raise", exc |-> e]

Returned(r) == r.kind = "return"

-----------------------------------------------------------------------------
(* The value domains *)

\* polarity in [-1.0, 1.0] and subjectivity in [0.0, 1.0], in tenths
Polarities == -10 .. 10
Subjectivities == 0 .. 10

\* The three tags of the data model, and "mixed" standing for any other tag
\* the provider may send.
Assessments == {"positive", "negative", "neutral", "mixed"}

Messages == {"I love this", "This is awful"}

\* A measurement as analyze_sentiment hands it on: the provider's payload
\* with 'text' and 'timestamp' added.
Measurement(p, s, a, text, ts) ==
    [polarity |-> p, subjectivity |-> s, assessment |-> a,
     text |-> text, timestamp |-> ts]

AllMeasurements ==
    { Measurement(p, s, a, t, 0) :
        p \in Polarities, s \in Subjectivities, a \in Assessments, t \in Messages }

-----------------------------------------------------------------------------
(* FixedSmartSentimentAgent.generate_empathetic_response *)

FallbackPrompt ==
    "I'm here to help! Could you tell me more about what you're thinking?"

StrongPositiveResponses ==
    << "I can feel your enthusiasm! That's wonderful to hear.",
       "Your positive energy is contagious! I'm excited to help.",
       "It sounds like you're in a great mood! How can I assist you today?" >>

MildPositiveResponses ==
    << "I sense some gentle positivity in your message.",
       "You seem content. I'm here if you need anything.",
       "That sounds pretty good! How can I help you further?" >>

StrongNegativeResponses ==
    << "I can hear the frustration in your words. I'm here to help.",
       "That sounds really challenging. Let's work through this together.",
       "I'm sorry you're dealing with this. How can I support you?" >>

MildNegativeResponses ==
    << "I sense some concern in your message. I'm here to listen.",
       "It sounds like you might be feeling uncertain. Let's talk about it.",
       "I notice some hesitation. Would you like to share more?" >>

NeutralResponses ==
    << "I'm listening. Please tell me more about what you need.",
       "I understand. How would you like me to help you with this?",
       "Got it. What specific assistance are you looking for?" >>

PersonalNote == " I can sense this is quite personal and important to you."
ObjectiveNote == " Let's look at this objectively and find the best solution."

\* the literals 0.3, -0.3, 0.7 and 0.3 of the code, in tenths
StrongPositivePolarity == 3
StrongNegativePolarity == -3
PersonalSubjectivity == 7
ObjectiveSubjectivity == 3

\* faulty variant of responses: the thresholds are not strict
responses_ge(assessment, polarity) ==
    IF assessment = "positive"
    THEN IF polarity >= StrongPositivePolarity
         THEN StrongPositiveResponses ELSE MildPositiveResponses
    ELSE IF assessment = "negative"
    THEN IF polarity <= StrongNegativePolarity
         THEN StrongNegativeResponses ELSE MildNegativeResponses
    ELSE NeutralResponses

\* faulty variant of responses: the strong buckets are chosen by polarity
\* whatever the tag
responses_by_polarity(assessment, polarity) ==
    IF polarity > StrongPositivePolarity THEN StrongPositiveResponses
    ELSE IF polarity < StrongNegativePolarity THEN StrongNegativeResponses
    ELSE IF assessment = "positive" THEN MildPositiveResponses
    ELSE IF assessment = "negative" THEN MildNegativeResponses
    ELSE NeutralResponses

\* lines 75-106: the candidate replies of the bucket
responses(assessment, polarity) ==
    IF assessment = "positive"
    THEN IF polarity > StrongPositivePolarity
         THEN StrongPositiveResponses ELSE MildPositiveResponses
    ELSE IF assessment = "negative"
    THEN IF polarity < StrongNegativePolarity
         THEN StrongNegativeResponses ELSE MildNegativeResponses
    ELSE NeutralResponses

\* faulty variant of base_response: the candidate depends on the history
base_response_rotating(self, candidates) ==
    candidates[(Len(self.conversation_history) % Len(candidates)) + 1]

\* line 108: responses[0].  self is the agent: the method can read it.
base_response(self, candidates) == candidates[1]

\* faulty variant of emotion_note: the thresholds are not strict
emotion_note_ge(subjectivity) ==
    IF subjectivity >= PersonalSubjectivity THEN PersonalNote
    ELSE IF subjectivity <= ObjectiveSubjectivity THEN ObjectiveNote
    ELSE ""

\* lines 111-116
emotion_note(subjectivity) ==
    IF subjectivity > PersonalSubjectivity THEN PersonalNote
    ELSE IF subjectivity < ObjectiveSubjectivity THEN ObjectiveNote
    ELSE ""

MeasurementKeys == {"polarity", "subjectivity", "assessment"}

\* faulty variant of respond_present: the note comes before the reply
respond_present_note_first(self, sentiment_data) ==
    IF ~(MeasurementKeys \subseteq DOMAIN sentiment_data)
    THEN Raise("KeyError")
    ELSE Return(emotion_note(sentiment_data.subjectivity)
                \o base_response(self, responses(sentiment_data.assessment,
                                                 sentiment_data.polarity)))

\* lines 70-118: the reply to a truthy sentiment_data
respond_present(self, sentiment_data) ==
    IF ~(MeasurementKeys \subseteq DOMAIN sentiment_data)
    THEN Raise("KeyError")
    ELSE Return(base_response(self, responses(sentiment_data.assessment,
                                              sentiment_data.polarity))
                \o emotion_note(sentiment_data.subjectivity))

\* faulty variant of generate_empathetic_response: None is subscripted
generate_empathetic_response_unguarded(self, sentiment_data, user_message) ==
    IF sentiment_data = None
    THEN Raise("TypeError")
    ELSE respond_present(self, sentiment_data)

\* lines 65-118
generate_empathetic_response(self, sentiment_data, user_message) ==
    IF ~Truthy(sentiment_data)
    THEN Return(FallbackPrompt)
    ELSE respond_present(self, sentiment_data)

-----------------------------------------------------------------------------
(* The sentiment provider: what one self.client.predict(text, "/predict")  *)
(* call can do.  It raises, or it returns a str: text that is no JSON, the *)
(* JSON of a value that is no object, or the JSON of an object.            *)

\* the measurements the provider sends in the state machine: polarities
\* 0.5, -0.5 and 0.0 (tenths), one per tag
ProviderMeasurements ==
    { [polarity |-> 5, subjectivity |-> 9, assessment |-> "positive"],
      [polarity |-> -5, subjectivity |-> 1, assessment |-> "negative"],
      [polarity |-> 0, subjectivity |-> 5, assessment |-> "neutral"] }

JsonArray == [json |-> "array"]

ProviderAnswers ==
    { [kind |-> "raise"], [kind |-> "str", text |-> "not json"],
      [kind |-> "str", text |-> "json", value |-> JsonArray],
      [kind |-> "str", text |-> "json", value |-> [error |-> "failed"]] }
    \cup { [kind |-> "str", text |-> "json", value |-> m] :
             m \in ProviderMeasurements }

\* json.loads
json_loads(result) ==
    IF result.text = "json" THEN Return(result.value)
    ELSE Raise("JSONDecodeError")

IsDict(v) == v # JsonArray /\ v # None

\* d[key] = value
SetItem(d, key, value) == (key :> value) @@ d

\* lines 54-63 of FixedSmartSentimentAgent.analyze_sentiment (lines 37-42 of
\* WorkingSentimentClient.analyze_sentiment): what is made of the answer of
\* the provider; every exception ends in None.
parse_result(answer, text, now) ==
    IF answer.kind = "raise" THEN None
    ELSE LET parsed == json_loads(answer)
         IN  IF ~Returned(parsed) THEN None
             ELSE IF ~IsDict(parsed.value) THEN None
             ELSE SetItem(SetItem(parsed.value, "text", text),
                          "timestamp", now)

\* one datetime.now() is read exactly when a dict came back
Ticks(sentiment) == IF sentiment = None THEN 0 ELSE 1

-----------------------------------------------------------------------------
(* The object the program constructed, as its methods see it *)

Self ==
    [client |-> client, conversation_history |-> conversation_history,
     analysis_history |-> analysis_history]

Connected(self) == self.client # None

NoTask == [pc |-> "idle", user_message |-> ""]

NoBatch == [pc |-> "none"]

\* no format call was made, no batch is running, no second object exists,
\* no loop and no script is running
NoScenario ==
    /\ formatted = <<>> /\ batch = NoBatch /\ heap = <<>>
    /\ frame = [pc |-> "none"] /\ trace = <<>>

NoCall == [op |-> "none"]

-----------------------------------------------------------------------------
(* WorkingSentimentClient.analyze_sentiment and analyze_batch.  Both are   *)
(* ordinary functions: a call runs to its end without being suspended.     *)
(* The result of a call is what it returns, the analysis_history it leaves *)
(* and the number of clock reads it made.                                  *)

\* faulty variant of analyze_sentiment: what came of the call is stored
\* before it is known to be a dict
analyze_sentiment_always_stores(self, text, answer, now) ==
    LET sentiment == IF Connected(self)
                     THEN parse_result(answer, text, now) ELSE None
    IN  [result |-> Return(sentiment),
         analysis_history |-> Append(self.analysis_history, sentiment),
         ticks |-> Ticks(sentiment)]

\* lines 28-51: `answer` is what self.client.predict does at line 35
analyze_sentiment(self, text, answer, now) ==
    LET sentiment == IF Connected(self)
                     THEN parse_result(answer, text, now) ELSE None
    IN  [result |-> Return(sentiment),
         analysis_history |->
             IF sentiment = None THEN self.analysis_history
             ELSE Append(self.analysis_history, sentiment),
         ticks |-> Ticks(sentiment)]

\* faulty variant of analyze_batch: the loop ends at the first text whose
\* analysis failed
RECURSIVE analyze_batch_until_failure(_, _, _, _)
analyze_batch_until_failure(self, texts, answers, now) ==
    IF texts = <<>>
    THEN [result |-> Return(<<>>),
          analysis_history |-> self.analysis_history, ticks |-> 0]
    ELSE LET first == analyze_sentiment(self, Head(texts), Head(answers), now)
             sentiment == first.result.value
             rest == analyze_batch_until_failure(
                         [self EXCEPT !.analysis_history =
                                          first.analysis_history],
                         Tail(texts), Tail(answers), now + first.ticks)
         IN  IF ~Truthy(sentiment)
             THEN [result |-> Return(<<>>),
                   analysis_history |-> first.analysis_history,
                   ticks |-> first.ticks]
             ELSE [result |-> Return(<<sentiment>> \o rest.result.value),
                   analysis_history |-> rest.analysis_history,
                   ticks |-> first.ticks + rest.ticks]

\* lines 53-65: answers[i] is what the provider does for texts[i]
RECURSIVE analyze_batch(_, _, _, _)
analyze_batch(self, texts, answers, now) ==
    IF texts = <<>>
    THEN [result |-> Return(<<>>),
          analysis_history |-> self.analysis_history, ticks |-> 0]
    ELSE LET first == analyze_sentiment(self, Head(texts), Head(answers), now)
             sentiment == first.result.value
             rest == analyze_batch(
                         [self EXCEPT !.analysis_history =
                                          first.analysis_history],
                         Tail(texts), Tail(answers), now + first.ticks)
         IN  [result |-> Return((IF Truthy(sentiment) THEN <<sentiment>>
                                 ELSE <<>>) \o rest.result.value),
              analysis_history |-> rest.analysis_history,
              ticks |-> first.ticks + rest.ticks]

-----------------------------------------------------------------------------
(* FixedSmartSentimentAgent.process_user_input *)

HistoryEntry(user_message, sentiment, response, now) ==
    [user_message |-> user_message, sentiment |-> sentiment,
     agent_response |-> response, timestamp |-> now]

\* faulty variant of store_in_history: nothing is stored without a sentiment
store_if_sentiment(self, user_message, sentiment, response, now) ==
    IF Truthy(sentiment)
    THEN Append(self.conversation_history,
                HistoryEntry(user_message, sentiment, response, now))
    ELSE self.conversation_history

\* lines 156-162
store_in_history(self, user_message, sentiment, response, now) ==
    Append(self.conversation_history,
           HistoryEntry(user_message, sentiment, response, now))

\* lines 149-164: from the sentiment to the end of the call.  The result is
\* what the call returns or raises, the history it leaves and the number of
\* clock reads it made.
process_rest(self, user_message, sentiment, now) ==
    LET response == generate_empathetic_response(self, sentiment, user_message)
    IN  IF ~Returned(response)
        THEN [result |-> response,
              conversation_history |-> self.conversation_history,
              ticks |-> 0]
        ELSE [result |-> Return(<<response.value, sentiment>>),
              conversation_history |->
                  store_in_history(self, user_message, sentiment,
                                   response.value, now),
              ticks |-> 1]

-----------------------------------------------------------------------------
(* Arithmetic of the summaries.  A quotient is kept exact, as the fraction *)
(* num/den in lowest terms; sums of polarities and subjectivities are in   *)
(* tenths, so are their means.  The rendering of a number by the f-string  *)
(* (+.2f, .1f) is not modelled.                                            *)

RECURSIVE Gcd(_, _)
Gcd(a, b) == IF b = 0 THEN a ELSE Gcd(b, a % b)

Abs(a) == IF a < 0 THEN -a ELSE a

\* faulty variant of Div: the division is the integer division //
Div_floor(a, b) ==
    IF b = 0 THEN Raise("ZeroDivisionError")
    ELSE Return([num |-> a \div b, den |-> 1])

\* a / b
Div(a, b) ==
    IF b = 0 THEN Raise("ZeroDivisionError")
    ELSE LET g == Gcd(Abs(a), b)
         IN  Return([num |-> a \div g, den |-> b \div g])

RECURSIVE Sum(_)
Sum(seq) == IF seq = <<>> THEN 0 ELSE Head(seq) + Sum(Tail(seq))

Count(seq, v) == Cardinality({i \in 1 .. Len(seq) : seq[i] = v})

\* the list comprehensions of the summaries
SentimentsOf(history) == [i \in 1 .. Len(history) |-> history[i].sentiment]
PolaritiesOf(sentiments) ==
    [i \in 1 .. Len(sentiments) |-> sentiments[i].polarity]
SubjectivitiesOf(sentiments) ==
    [i \in 1 .. Len(sentiments) |-> sentiments[i].subjectivity]
AssessmentsOf(sentiments) ==
    [i \in 1 .. Len(sentiments) |-> sentiments[i].assessment]

\* the report from the list of measurements and the divisor the code uses
Report(sentiments, total) ==
    LET assessments == AssessmentsOf(sentiments)
        pos_count == Count(assessments, "positive")
        neg_count == Count(assessments, "negative")
        neu_count == Count(assessments, "neutral")
        avg_polarity == Div(Sum(PolaritiesOf(sentiments)), total)
        avg_subjectivity == Div(Sum(SubjectivitiesOf(sentiments)), total)
        pos_pct == Div(pos_count * 100, total)
        neg_pct == Div(neg_count * 100, total)
        neu_pct == Div(neu_count * 100, total)
    IN  IF \E i \in 1 .. Len(sentiments) :
               ~(MeasurementKeys \subseteq DOMAIN sentiments[i])
        THEN Raise("KeyError")
        ELSE IF \E q \in {avg_polarity, avg_subjectivity,
                           pos_pct, neg_pct, neu_pct} : ~Returned(q)
        THEN Raise("ZeroDivisionError")
        ELSE Return([total |-> total,
                     avg_polarity |-> avg_polarity.value,
                     avg_subjectivity |-> avg_subjectivity.value,
                     pos_count |-> pos_count, pos_pct |-> pos_pct.value,
                     neg_count |-> neg_count, neg_pct |-> neg_pct.value,
                     neu_count |-> neu_count, neu_pct |-> neu_pct.value])

\* The summary is a str built by an f-string; it is modelled by the record
\* of the values the f-string renders, and a fixed text by the record of
\* that text.
NoConversationData == [text |-> "No conversation data available."]
NoSentimentData == [text |-> "No sentiment data available."]
NoAnalysisHistory == [text |-> "No analysis history available."]

\* line 171
present_sentiments(self) ==
    SelectSeq(SentimentsOf(self.conversation_history), Truthy)

\* faulty variant of get_conversation_summary: the statistics are taken
\* over all records
get_conversation_summary_over_all(self) ==
    IF self.conversation_history = <<>>
    THEN Return(NoConversationData)
    ELSE Report(present_sentiments(self), Len(self.conversation_history))

\* faulty variant of get_conversation_summary: line 173 is missing
get_conversation_summary_unguarded(self) ==
    IF self.conversation_history = <<>>
    THEN Return(NoConversationData)
    ELSE Report(present_sentiments(self), Len(present_sentiments(self)))

\* FixedSmartSentimentAgent.get_conversation_summary, lines 166-193
get_conversation_summary(self) ==
    IF self.conversation_history = <<>>
    THEN Return(NoConversationData)
    ELSE LET sentiments == present_sentiments(self)
         IN  IF sentiments = <<>>
             THEN Return(NoSentimentData)
             ELSE Report(sentiments, Len(sentiments))

\* lines 137-138, on exact means: mean polarity against 0.1 and -0.1, mean
\* subjectivity against 0.6 and 0.3.  (The code compares IEEE doubles: a
\* float mean can differ from the exact mean in its last bit, which this
\* exact comparison does not show.)
\* faulty variant of OverallMood: the thresholds are not strict
OverallMood_ge(avg) ==
    IF avg.num >= 1 * avg.den THEN "Generally Positive"
    ELSE IF avg.num <= (-1) * avg.den THEN "Generally Negative"
    ELSE "Balanced"

OverallMood(avg) ==
    IF avg.num > 1 * avg.den THEN "Generally Positive"
    ELSE IF avg.num < (-1) * avg.den THEN "Generally Negative"
    ELSE "Balanced"

EmotionalTone(avg) ==
    IF avg.num > 6 * avg.den THEN "High"
    ELSE IF avg.num > 3 * avg.den THEN "Moderate"
    ELSE "Low"

get_summary_unguarded(self) ==
    LET report == Report(self.analysis_history, Len(self.analysis_history))
    IN  IF ~Returned(report) THEN report
        ELSE Return(("overall_mood" :> OverallMood(report.value.avg_polarity))
                    @@ ("emotional_tone" :>
                            EmotionalTone(report.value.avg_subjectivity))
                    @@ report.value)

\* WorkingSentimentClient.get_summary, lines 108-140
get_summary(self) ==
    IF self.analysis_history = <<>>
    THEN Return(NoAnalysisHistory)
    ELSE get_summary_unguarded(self)

-----------------------------------------------------------------------------
(* Spec: a run of one object of the program, a FixedSmartSentimentAgent or *)
(* a WorkingSentimentClient, driven by any sequence of calls of its        *)
(* methods.  process_user_input is a coroutine: it is suspended while the  *)
(* provider works, and other calls of the agent can run meanwhile.         *)

Classes == {"FixedSmartSentimentAgent", "WorkingSentimentClient"}

\* both constructors: lines 11-15, and lines 12-15 of the client
Init ==
    /\ class \in Classes
    /\ client = None
    /\ conversation_history = <<>>
    /\ analysis_history = <<>>
    /\ tasks = [i \in 1 .. MaxCalls |-> NoTask]
    /\ clock = 0
    /\ ret = NoCall
    /\ pc = "main"
    /\ arg_sentiment_data = None
    /\ arg_user_message = ""
    /\ NoScenario

IsAgent == class = "FixedSmartSentimentAgent" /\ pc = "main"
IsClient == class = "WorkingSentimentClient" /\ pc = "main"

CallsMade == {i \in 1 .. MaxCalls : tasks[i].pc # "idle"}

\* FixedSmartSentimentAgent.connect, lines 17-41: the Client is constructed
\* and assigned (line 25), then tried once (line 31); True is returned when
\* both went well, and a client that failed its trial stays assigned.  The
\* two awaits of connect are not split into steps.
connect(constructed, test_ok) ==
    /\ IsAgent
    /\ client' = IF constructed THEN TheClient ELSE client
    /\ ret' = [op |-> "connect", result |-> Return(constructed /\ test_ok)]
    /\ UNCHANGED <<class, conversation_history, analysis_history, tasks,
                   clock, pc, arg_sentiment_data, arg_user_message,
                   scenario_vars>>

\* faulty variant of generate_call: the reply is stored in the history
generate_call_recording(sentiment_data, user_message) ==
    LET result == generate_empathetic_response(Self, sentiment_data, user_message)
    IN  /\ IsAgent
        /\ ret' = [op |-> "generate_empathetic_response",
                   sentiment_data |-> sentiment_data, result |-> result]
        /\ conversation_history' =
              IF Returned(result)
              THEN store_in_history(Self, user_message, sentiment_data,
                                    result.value, clock)
              ELSE conversation_history
        /\ UNCHANGED <<class, client, analysis_history, tasks, clock, pc,
                       arg_sentiment_data, arg_user_message, scenario_vars>>

\* a call of generate_empathetic_response on the agent
generate_call(sentiment_data, user_message) ==
    /\ IsAgent
    /\ ret' = [op |-> "generate_empathetic_response",
               sentiment_data |-> sentiment_data,
               result |-> generate_empathetic_response(
                              Self, sentiment_data, user_message)]
    /\ UNCHANGED <<class, client, conversation_history, analysis_history,
                   tasks, clock, pc, arg_sentiment_data, arg_user_message,
                   scenario_vars>>

\* the end of a process_user_input call: lines 149-164 on `sentiment`
process_finish(i, user_message, sentiment) ==
    LET now == clock + Ticks(sentiment)
        rest == process_rest(Self, user_message, sentiment, now)
    IN  /\ conversation_history' = rest.conversation_history
        /\ clock' = now + rest.ticks
        /\ tasks' = [tasks EXCEPT ![i] =
                        [pc |-> rest.result.kind,
                         user_message |-> user_message]]
        /\ ret' = [op |-> "process_user_input", task |-> i,
                   result |-> rest.result]
        /\ UNCHANGED <<class, client, analysis_history, pc,
                       arg_sentiment_data, arg_user_message, scenario_vars>>

\* process_user_input on an agent that is not connected: line 47 raises
\* before anything is awaited, line 63 turns it into None, and the call
\* runs to its end without being suspended.
process_user_input_not_connected(i, user_message) ==
    /\ IsAgent
    /\ tasks[i].pc = "idle"
    /\ \A j \in 1 .. (i - 1) : tasks[j].pc # "idle"
    /\ ~Connected(Self)
    /\ process_finish(i, user_message, None)

\* process_user_input on a connected agent, up to the await of line 50
process_user_input_begin(i, user_message) ==
    /\ IsAgent
    /\ tasks[i].pc = "idle"
    /\ \A j \in 1 .. (i - 1) : tasks[j].pc # "idle"
    /\ Connected(Self)
    /\ tasks' = [tasks EXCEPT ![i] =
                    [pc |-> "awaiting", user_message |-> user_message]]
    /\ UNCHANGED <<class, client, conversation_history, analysis_history,
                   clock, ret, pc, arg_sentiment_data, arg_user_message,
                   scenario_vars>>

\* faulty variant of process_user_input_resume: the text that is analysed
\* is the one of the call begun last, as if it were kept on the object
process_user_input_resume_last_text(i, answer) ==
    LET begun == {j \in 1 .. MaxCalls : tasks[j].pc # "idle"}
        last == CHOOSE j \in begun : \A k \in begun : k <= j
    IN  /\ IsAgent
        /\ tasks[i].pc = "awaiting"
        /\ process_finish(i, tasks[i].user_message,
                          parse_result(answer, tasks[last].user_message,
                                       clock))

\* the provider answered: lines 54-63, then lines 149-164
process_user_input_resume(i, answer) ==
    /\ IsAgent
    /\ tasks[i].pc = "awaiting"
    /\ process_finish(i, tasks[i].user_message,
                      parse_result(answer, tasks[i].user_message, clock))

\* a call of get_conversation_summary on the agent
summary_call ==
    /\ IsAgent
    /\ ret' = [op |-> "get_conversation_summary",
               result |-> get_conversation_summary(Self)]
    /\ UNCHANGED <<class, client, conversation_history, analysis_history,
                   tasks, clock, pc, arg_sentiment_data, arg_user_message,
                   scenario_vars>>

\* WorkingSentimentClient.connect, lines 17-26
client_connect(constructed) ==
    /\ IsClient
    /\ client' = IF constructed THEN TheClient ELSE client
    /\ ret' = [op |-> "connect", result |-> Return(constructed)]
    /\ UNCHANGED <<class, conversation_history, analysis_history, tasks,
                   clock, pc, arg_sentiment_data, arg_user_message,
                   scenario_vars>>

\* a call of WorkingSentimentClient.analyze_sentiment
client_analyze_sentiment(text, answer) ==
    /\ IsClient
    /\ Len(analysis_history) < MaxAnalyses
    /\ LET done == analyze_sentiment(Self, text, answer, clock)
       IN  /\ analysis_history' = done.analysis_history
           /\ clock' = clock + done.ticks
           /\ ret' = [op |-> "analyze_sentiment", result |-> done.result]
    /\ UNCHANGED <<class, client, conversation_history, tasks, pc,
                   arg_sentiment_data, arg_user_message, scenario_vars>>

\* a call of WorkingSentimentClient.get_summary
client_summary_call ==
    /\ IsClient
    /\ ret' = [op |-> "get_summary", result |-> get_summary(Self)]
    /\ UNCHANGED <<class, client, conversation_history, analysis_history,
                   tasks, clock, pc, arg_sentiment_data, arg_user_message,
                   scenario_vars>>

\* the sentiment_data a caller passes to generate_empathetic_response
CallerSentiments ==
    {None} \cup { Measurement(m.polarity, m.subjectivity, m.assessment,
                              "I love this", 0) : m \in ProviderMeasurements }

Next ==
    \/ \E constructed, test_ok \in BOOLEAN : connect(constructed, test_ok)
    \/ \E sd \in CallerSentiments, msg \in Messages : generate_call(sd, msg)
    \/ \E i \in 1 .. MaxCalls, msg \in Messages :
          process_user_input_not_connected(i, msg)
    \/ \E i \in 1 .. MaxCalls, msg \in Messages :
          process_user_input_begin(i, msg)
    \/ \E i \in 1 .. MaxCalls, answer \in ProviderAnswers :
          process_user_input_resume(i, answer)
    \/ summary_call
    \/ \E constructed \in BOOLEAN : client_connect(constructed)
    \/ \E text \in Messages, answer \in ProviderAnswers :
          client_analyze_sentiment(text, answer)
    \/ client_summary_call

Spec == Init /\ [][Next]_vars

-----------------------------------------------------------------------------
(* SpecSequential: an agent whose caller awaits every process_user_input   *)
(* before it makes the next call, as quick_demo (line 246) and             *)
(* interactive_chat (line 219) do.                                         *)

InitSequential == Init /\ class = "FixedSmartSentimentAgent"

NoCallInFlight == \A j \in 1 .. MaxCalls : tasks[j].pc # "awaiting"

\* the next call is made only when the one before has ended
process_user_input_begin_awaited(i, user_message) ==
    /\ NoCallInFlight
    /\ process_user_input_begin(i, user_message)

NextSequential ==
    \/ \E constructed, test_ok \in BOOLEAN : connect(constructed, test_ok)
    \/ \E sd \in CallerSentiments, msg \in Messages : generate_call(sd, msg)
    \/ \E i \in 1 .. MaxCalls, msg \in Messages :
          process_user_input_not_connected(i, msg)
    \/ \E i \in 1 .. MaxCalls, msg \in Messages :
          process_user_input_begin_awaited(i, msg)
    \/ \E i \in 1 .. MaxCalls, answer \in ProviderAnswers :
          process_user_input_resume(i, answer)
    \/ summary_call

SpecSequential == InitSequential /\ [][NextSequential]_vars

-----------------------------------------------------------------------------
(* SpecSummary: one summary call on an object whose history was filled by  *)
(* earlier calls that have ended.  The measurements of the history are     *)
(* drawn from SummaryMeasurements, which holds the scenario of the spec    *)
(* (polarities 0.5, -0.5, 0.0) and means on, above and below the           *)
(* thresholds of get_summary; the agent's records may also hold None.      *)

MaxSummaryLen == 3   \* records in the history that is summarised

SummaryMeasurements ==
    ProviderMeasurements \cup
    { [polarity |-> 1, subjectivity |-> 6, assessment |-> "positive"],
      [polarity |-> -1, subjectivity |-> 3, assessment |-> "negative"],
      [polarity |-> 2, subjectivity |-> 7, assessment |-> "positive"],
      [polarity |-> 0, subjectivity |-> 4, assessment |-> "mixed"] }

SeqsUpTo(S, n) == UNION {[1 .. k -> S] : k \in 0 .. n}

\* the analysis_history left by analyze_sentiment calls that returned the
\* measurements ms, one clock read each
AnalysisHistoryOf(ms) ==
    [i \in 1 .. Len(ms) |->
        Measurement(ms[i].polarity, ms[i].subjectivity, ms[i].assessment,
                    "I love this", i - 1)]

\* the conversation_history left by process_user_input calls whose
\* sentiments were ms (a measurement or None)
ConversationHistoryOf(ms) ==
    [i \in 1 .. Len(ms) |->
        LET sentiment ==
                IF ms[i] = None THEN None
                ELSE Measurement(ms[i].polarity, ms[i].subjectivity,
                                 ms[i].assessment, "I love this", 2 * i - 2)
        IN  HistoryEntry("I love this", sentiment,
                         generate_empathetic_response(
                             [client |-> TheClient,
                              conversation_history |-> <<>>,
                              analysis_history |-> <<>>],
                             sentiment, "I love this").value,
                         2 * i - 1)]

InitSummary ==
    /\ class \in Classes
    /\ client = TheClient
    /\ \E ms \in SeqsUpTo(SummaryMeasurements \cup {None}, MaxSummaryLen) :
          \/ /\ class = "FixedSmartSentimentAgent"
             /\ conversation_history = ConversationHistoryOf(ms)
             /\ analysis_history = <<>>
             /\ clock = 2 * Len(ms)
          \/ /\ class = "WorkingSentimentClient"
             /\ \A i \in 1 .. Len(ms) : ms[i] # None
             /\ analysis_history = AnalysisHistoryOf(ms)
             /\ conversation_history = <<>>
             /\ clock = Len(ms)
    /\ tasks = [i \in 1 .. MaxCalls |-> NoTask]
    /\ ret = NoCall
    /\ pc = "main"
    /\ arg_sentiment_data = None
    /\ arg_user_message = ""
    /\ NoScenario

NextSummary ==
    \/ summary_call
    \/ client_summary_call

SpecSummary == InitSummary /\ [][NextSummary]_vars

-----------------------------------------------------------------------------
(* WorkingSentimentClient.format_result and                                *)
(* FixedSmartSentimentAgent.format_sentiment_display.                      *)
(*                                                                         *)
(* In this section a float is an integer number of SIXTEENTHS: polarity    *)
(* 0.5 is 8, -1.0 is -16.  Sixteenths are floats that binary64 holds       *)
(* exactly, and so are their sums, halves and products by 20, so that the  *)
(* integer arithmetic below is the arithmetic of lines 88-94 bit for bit.  *)
(* On floats that are not dyadic (0.1, -0.9) binary64 rounds each          *)
(* operation, which this section does not show.                            *)
(* The icons chosen by the assessment are written as ASCII names in        *)
(* parentheses, the full and the empty cell of a bar as "#" and "-", the   *)
(* rule of 59 box characters as 59 "=", and the emoji that open the other  *)
(* lines are left out.                                                     *)

Unit == 16   \* 1.0 in sixteenths

bar_length == 20

MaxFormats == 2   \* format calls on the same measurement

\* faulty variant of int: the quotient is rounded to the nearest integer
int_round(a, b) == (2 * a + b) \div (2 * b)

\* int(a / b) for b > 0: the quotient truncated toward zero
int(a, b) == IF a >= 0 THEN a \div b ELSE -((-a) \div b)

\* a / b rounded to the nearest integer, a tie to the even one, as the
\* format specification .2f rounds an exactly held float
round_half_even(a, b) ==
    LET q == a \div b
        r == a % b
    IN  IF 2 * r < b THEN q
        ELSE IF 2 * r > b THEN q + 1
        ELSE IF q % 2 = 0 THEN q ELSE q + 1

\* f"{x:.2f}" and, with plus, f"{x:+.2f}" for the float x sixteenths
format_2f(x, plus) ==
    LET h == round_half_even(Abs(x) * 100, Unit)
        sign == IF x < 0 THEN "-" ELSE IF plus THEN "+" ELSE ""
        cents == h % 100
    IN  sign \o ToString(h \div 100) \o "."
             \o (IF cents < 10 THEN "0" ELSE "") \o ToString(cents)

\* s * n
RECURSIVE Repeat(_, _)
Repeat(s, n) == IF n <= 0 THEN "" ELSE s \o Repeat(s, n - 1)

LowerCase == "abcdefghijklmnopqrstuvwxyz"
UpperCase == "ABCDEFGHIJKLMNOPQRSTUVWXYZ"

\* str.upper()
RECURSIVE upper(_)
upper(s) ==
    IF Len(s) = 0 THEN ""
    ELSE LET c == SubSeq(s, 1, 1)
             at == {i \in 1 .. Len(LowerCase) : SubSeq(LowerCase, i, i) = c}
         IN  (IF at = {} THEN c
              ELSE LET i == CHOOSE i \in at : TRUE IN SubSeq(UpperCase, i, i))
             \o upper(SubSeq(s, 2, Len(s)))

NoSentimentDataText == "No sentiment data"

Rule == Repeat("=", 59)

\* faulty variant of mood_and_color: the icons follow the sign of the polarity
mood_and_color_by_polarity(sentiment) ==
    IF sentiment.polarity > 0
    THEN [mood_emoji |-> "(smiling face)", color |-> "(green circle)"]
    ELSE IF sentiment.polarity < 0
    THEN [mood_emoji |-> "(crying face)", color |-> "(red circle)"]
    ELSE [mood_emoji |-> "(neutral face)", color |-> "(white circle)"]

\* lines 77-85 of the client
mood_and_color(sentiment) ==
    IF sentiment.assessment = "positive"
    THEN [mood_emoji |-> "(smiling face)", color |-> "(green circle)"]
    ELSE IF sentiment.assessment = "negative"
    THEN [mood_emoji |-> "(crying face)", color |-> "(red circle)"]
    ELSE [mood_emoji |-> "(neutral face)", color |-> "(white circle)"]

\* WorkingSentimentClient.format_result, lines 67-106
format_result(self, sentiment) ==
    IF ~Truthy(sentiment) THEN Return(NoSentimentDataText)
    ELSE IF ~(MeasurementKeys \subseteq DOMAIN sentiment)
    THEN Raise("KeyError")
    ELSE
    LET polarity == sentiment.polarity
        subjectivity == sentiment.subjectivity
        assessment == sentiment.assessment
        icons == mood_and_color(sentiment)
        \* polarity_normalized = (polarity + 1) / 2 is (polarity + Unit) / 2
        \* sixteenths, and polarity_normalized * bar_length is
        \* (polarity + Unit) * bar_length / (2 * Unit)
        filled_length == int((polarity + Unit) * bar_length, 2 * Unit)
        polarity_bar == Repeat("#", filled_length)
                            \o Repeat("-", bar_length - filled_length)
        subj_filled == int(subjectivity * bar_length, Unit)
        subj_bar == Repeat("#", subj_filled)
                        \o Repeat("-", bar_length - subj_filled)
    IN  IF ~({"text", "timestamp"} \subseteq DOMAIN sentiment)
        THEN Raise("KeyError")
        ELSE Return(
            icons.mood_emoji \o " Sentiment Analysis Results:\n"
            \o Rule \o "\n"
            \o "Text: \"" \o sentiment.text \o "\"\n"
            \o icons.color \o " Assessment: " \o upper(assessment) \o "\n"
            \o "Polarity: " \o format_2f(polarity, TRUE)
                \o " [" \o polarity_bar \o "] ("
                \o format_2f(polarity, TRUE) \o ")\n"
            \o "Subjectivity: " \o format_2f(subjectivity, FALSE)
                \o " [" \o subj_bar \o "] ("
                \o format_2f(subjectivity, FALSE) \o ")\n"
            \o "Analyzed: " \o ToString(sentiment.timestamp) \o "\n"
            \o Rule)

\* lines 130-138 of the agent
mood_and_color_of_display(sentiment) ==
    IF sentiment.assessment = "positive"
    THEN [mood |-> "(smiling face) Positive", color |-> "(green circle)"]
    ELSE IF sentiment.assessment = "negative"
    THEN [mood |-> "(crying face) Negative", color |-> "(red circle)"]
    ELSE [mood |-> "(neutral face) Neutral", color |-> "(white circle)"]

\* FixedSmartSentimentAgent.format_sentiment_display, lines 120-140
format_sentiment_display(self, sentiment) ==
    IF ~Truthy(sentiment) THEN Return(NoSentimentDataText)
    ELSE IF ~(MeasurementKeys \subseteq DOMAIN sentiment)
    THEN Raise("KeyError")
    ELSE
    LET icons == mood_and_color_of_display(sentiment)
    IN  Return(icons.color \o " " \o icons.mood
               \o " (polarity: " \o format_2f(sentiment.polarity, TRUE)
               \o ", subjectivity: "
               \o format_2f(sentiment.subjectivity, FALSE) \o ")")

(* SpecFormat: format calls on one measurement, drawn from the grid of     *)
(* sixteenths.                                                             *)

FormatMeasurements ==
    { Measurement(p, s, a, "I love this", 0) :
        p \in (-Unit) .. Unit, s \in 0 .. Unit, a \in Assessments }

InitFormat ==
    /\ class \in Classes
    /\ client = None
    /\ conversation_history = <<>>
    /\ analysis_history = <<>>
    /\ tasks = [i \in 1 .. MaxCalls |-> NoTask]
    /\ clock = 0
    /\ ret = NoCall
    /\ pc = "main"
    /\ arg_sentiment_data \in FormatMeasurements \cup {None}
    /\ arg_user_message = ""
    /\ NoScenario

\* a call of format_result on the client
format_result_call ==
    /\ IsClient
    /\ Len(formatted) < MaxFormats
    /\ LET result == format_result(Self, arg_sentiment_data)
       IN  /\ formatted' = Append(formatted, result)
           /\ ret' = [op |-> "format_result", result |-> result]
    /\ UNCHANGED <<class, client, conversation_history, analysis_history,
                   tasks, clock, pc, arg_sentiment_data, arg_user_message,
                   batch, heap, frame, trace>>

\* a call of format_sentiment_display on the agent
format_sentiment_display_call ==
    /\ IsAgent
    /\ Len(formatted) < MaxFormats
    /\ LET result == format_sentiment_display(Self, arg_sentiment_data)
       IN  /\ formatted' = Append(formatted, result)
           /\ ret' = [op |-> "format_sentiment_display", result |-> result]
    /\ UNCHANGED <<class, client, conversation_history, analysis_history,
                   tasks, clock, pc, arg_sentiment_data, arg_user_message,
                   batch, heap, frame, trace>>

NextFormat ==
    \/ format_result_call
    \/ format_sentiment_display_call

SpecFormat == InitFormat /\ [][NextFormat]_vars

-----------------------------------------------------------------------------
(* SpecInstances: two objects of one class.  The objects of the program    *)
(* are kept in `heap` by identity: an object of a class holds its client   *)
(* and the identity of its history list, a list holds its items.  A call   *)
(* on an object runs to its end here; the overlap of calls on one object   *)
(* is the subject of Spec.                                                 *)

MaxInstanceRecords == 2   \* items one history list may hold
MaxInstanceClock == 6     \* clock reads after which no call is started

\* faulty variant of __init__: the history is one list of the class, which
\* every object of the class refers to
__init___shared(h, cls) ==
    h \o << [type |-> "list", items |-> <<>>],
            [type |-> cls, client |-> None, history |-> 1] >>

\* __init__ of both classes: `[]` makes a new list, which the new object
\* refers to
__init__(h, cls) ==
    h \o << [type |-> "list", items |-> <<>>],
            [type |-> cls, client |-> None, history |-> Len(h) + 1] >>

\* what is said to the two objects, and what the provider answers: a
\* failure, an object that is no measurement, and a measurement
InstanceMessages == {"I love this"}

FewAnswers ==
    { [kind |-> "raise"],
      [kind |-> "str", text |-> "json", value |-> [error |-> "failed"]],
      [kind |-> "str", text |-> "json",
       value |-> [polarity |-> 5, subjectivity |-> 9,
                  assessment |-> "positive"]] }

Instances == {o \in DOMAIN heap : heap[o].type \in Classes}

\* o.conversation_history or o.analysis_history
HistoryOf(o) == heap[heap[o].history].items

\* the object o as its methods see it
SelfOf(o) ==
    [client |-> heap[o].client,
     conversation_history |->
         IF heap[o].type = "FixedSmartSentimentAgent"
         THEN HistoryOf(o) ELSE <<>>,
     analysis_history |->
         IF heap[o].type = "WorkingSentimentClient"
         THEN HistoryOf(o) ELSE <<>>]

InitInstances ==
    /\ class \in Classes
    /\ client = None
    /\ conversation_history = <<>>
    /\ analysis_history = <<>>
    /\ tasks = [i \in 1 .. MaxCalls |-> NoTask]
    /\ clock = 0
    /\ ret = NoCall
    /\ pc = "main"
    /\ arg_sentiment_data = None
    /\ arg_user_message = ""
    /\ formatted = <<>>
    /\ batch = NoBatch
    /\ frame = [pc |-> "none"]
    /\ trace = <<>>
    /\ heap = __init__(__init__(<<>>, class), class)

\* connect on the object o, lines 17-41 of the agent and 17-26 of the client
instance_connect(o, constructed, test_ok) ==
    /\ heap' = [heap EXCEPT ![o].client =
                   IF constructed THEN TheClient ELSE @]
    /\ ret' = [op |-> "connect", instance |-> o,
               result |-> Return(
                   IF heap[o].type = "FixedSmartSentimentAgent"
                   THEN constructed /\ test_ok ELSE constructed)]
    /\ UNCHANGED <<class, client, conversation_history, analysis_history,
                   tasks, clock, pc, arg_sentiment_data, arg_user_message,
                   formatted, batch, frame, trace>>

\* process_user_input on the agent o
instance_process_user_input(o, user_message, answer) ==
    /\ heap[o].type = "FixedSmartSentimentAgent"
    /\ clock < MaxInstanceClock
    /\ Len(HistoryOf(o)) < MaxInstanceRecords
    /\ LET self == SelfOf(o)
           sentiment == IF Connected(self)
                        THEN parse_result(answer, user_message, clock)
                        ELSE None
           now == clock + Ticks(sentiment)
           rest == process_rest(self, user_message, sentiment, now)
       IN  /\ heap' = [heap EXCEPT ![heap[o].history].items =
                          rest.conversation_history]
           /\ clock' = now + rest.ticks
           /\ ret' = [op |-> "process_user_input", instance |-> o,
                      result |-> rest.result]
    /\ UNCHANGED <<class, client, conversation_history, analysis_history,
                   tasks, pc, arg_sentiment_data, arg_user_message,
                   formatted, batch, frame, trace>>

\* analyze_sentiment on the client o
instance_analyze_sentiment(o, text, answer) ==
    /\ heap[o].type = "WorkingSentimentClient"
    /\ clock < MaxInstanceClock
    /\ Len(HistoryOf(o)) < MaxInstanceRecords
    /\ LET done == analyze_sentiment(SelfOf(o), text, answer, clock)
       IN  /\ heap' = [heap EXCEPT ![heap[o].history].items =
                          done.analysis_history]
           /\ clock' = clock + done.ticks
           /\ ret' = [op |-> "analyze_sentiment", instance |-> o,
                      result |-> done.result]
    /\ UNCHANGED <<class, client, conversation_history, analysis_history,
                   tasks, pc, arg_sentiment_data, arg_user_message,
                   formatted, batch, frame, trace>>

\* get_conversation_summary or get_summary on the object o
instance_summary(o) ==
    /\ ret' = [op |-> "summary", instance |-> o,
               result |-> IF heap[o].type = "FixedSmartSentimentAgent"
                          THEN get_conversation_summary(SelfOf(o))
                          ELSE get_summary(SelfOf(o))]
    /\ UNCHANGED <<class, client, conversation_history, analysis_history,
                   tasks, clock, pc, arg_sentiment_data, arg_user_message,
                   scenario_vars>>

NextInstances ==
    \/ \E o \in Instances, constructed, test_ok \in BOOLEAN :
          instance_connect(o, constructed, test_ok)
    \/ \E o \in Instances, msg \in InstanceMessages,
             answer \in FewAnswers :
          instance_process_user_input(o, msg, answer)
    \/ \E o \in Instances, text \in InstanceMessages,
             answer \in FewAnswers :
          instance_analyze_sentiment(o, text, answer)
    \/ \E o \in Instances : instance_summary(o)

SpecInstances == InitInstances /\ [][NextInstances]_vars

-----------------------------------------------------------------------------
(* SpecBatch: a client on which analyze_sentiment and analyze_batch are    *)
(* called.  `batch` keeps, of the last analyze_batch call, the texts, what *)
(* the provider did for each of them and the length analysis_history had   *)
(* when the call began.                                                    *)

MaxBatch == 2   \* texts of one analyze_batch call

InitBatch == Init /\ class = "WorkingSentimentClient"

\* a call of WorkingSentimentClient.analyze_batch
client_analyze_batch(texts, answers) ==
    /\ IsClient
    /\ Len(analysis_history) + Len(texts) <= MaxAnalyses
    /\ LET done == analyze_batch(Self, texts, answers, clock)
       IN  /\ analysis_history' = done.analysis_history
           /\ clock' = clock + done.ticks
           /\ ret' = [op |-> "analyze_batch", result |-> done.result]
    /\ batch' = [pc |-> "returned", texts |-> texts, answers |-> answers,
                 entered_with |-> Len(analysis_history)]
    /\ UNCHANGED <<class, client, conversation_history, tasks, pc,
                   arg_sentiment_data, arg_user_message, formatted, heap,
                   frame, trace>>

NextBatch ==
    \/ \E constructed \in BOOLEAN : client_connect(constructed)
    \/ \E text \in Messages, answer \in FewAnswers :
          client_analyze_sentiment(text, answer)
    \/ \E texts \in SeqsUpTo(Messages, MaxBatch) :
          \E answers \in [1 .. Len(texts) -> FewAnswers] :
              client_analyze_batch(texts, answers)

SpecBatch == InitBatch /\ [][NextBatch]_vars

-----------------------------------------------------------------------------
(* SpecFailedConnect: an agent on which every connect() call returns       *)
(* False: the Client could not be constructed, or it was constructed and   *)
(* its trial predict of line 31 raised.                                    *)

connect_returning_false(constructed, test_ok) ==
    /\ ~(constructed /\ test_ok)
    /\ connect(constructed, test_ok)

NextFailedConnect ==
    \/ \E constructed, test_ok \in BOOLEAN :
          connect_returning_false(constructed, test_ok)
    \/ \E i \in 1 .. MaxCalls, msg \in Messages :
          process_user_input_not_connected(i, msg)
    \/ \E i \in 1 .. MaxCalls, msg \in Messages :
          process_user_input_begin(i, msg)
    \/ \E i \in 1 .. MaxCalls, answer \in ProviderAnswers :
          process_user_input_resume(i, answer)
    \/ summary_call

SpecFailedConnect == InitSequential /\ [][NextFailedConnect]_vars

-----------------------------------------------------------------------------
(* FixedSmartSentimentAgent.interactive_chat, lines 195-225.               *)
(* `frame.pc` is the place of the loop: at input() of line 206, suspended  *)
(* in process_user_input (line 220), or after the loop.  `trace` holds     *)
(* what input() did, in order: a line, KeyboardInterrupt or EOFError.      *)

MaxChatEvents == 3   \* input() calls of one chat

\* faulty variant of lower: the case is kept
lower_unchanged(s) == s

\* str.lower()
RECURSIVE lower(_)
lower(s) ==
    IF Len(s) = 0 THEN ""
    ELSE LET c == SubSeq(s, 1, 1)
             at == {i \in 1 .. Len(UpperCase) : SubSeq(UpperCase, i, i) = c}
         IN  (IF at = {} THEN c
              ELSE LET i == CHOOSE i \in at : TRUE IN SubSeq(LowerCase, i, i))
             \o lower(SubSeq(s, 2, Len(s)))

\* faulty variant of strip: the blanks are kept
strip_unchanged(s) == s

\* str.strip(), on lines whose only whitespace is the blank
RECURSIVE strip(_)
strip(s) ==
    IF Len(s) = 0 THEN s
    ELSE IF SubSeq(s, 1, 1) = " " THEN strip(SubSeq(s, 2, Len(s)))
    ELSE IF SubSeq(s, Len(s), Len(s)) = " "
    THEN strip(SubSeq(s, 1, Len(s) - 1))
    ELSE s

\* the lines the user may enter
ChatLines ==
    {"quit", " Exit ", "BYE", "summary", "", " ", "I love this", "quit it"}

InitChat ==
    /\ class = "FixedSmartSentimentAgent"
    /\ client \in {None, TheClient}
    /\ conversation_history = <<>>
    /\ analysis_history = <<>>
    /\ tasks = [i \in 1 .. MaxCalls |-> NoTask]
    /\ clock = 0
    /\ ret = NoCall
    /\ pc = "chat"
    /\ arg_sentiment_data = None
    /\ arg_user_message = ""
    /\ formatted = <<>>
    /\ batch = NoBatch
    /\ heap = <<>>
    /\ frame = [pc |-> "input"]
    /\ trace = <<>>

\* lines 149-164 of the call on task i, inside the try of line 205: whether
\* the call returns or raises, the loop goes on to the next input()
chat_process_finish(i, user_message, sentiment) ==
    LET now == clock + Ticks(sentiment)
        rest == process_rest(Self, user_message, sentiment, now)
    IN  /\ conversation_history' = rest.conversation_history
        /\ clock' = now + rest.ticks
        /\ tasks' = [tasks EXCEPT ![i] =
                        [pc |-> rest.result.kind,
                         user_message |-> user_message]]
        /\ ret' = [op |-> "process_user_input", task |-> i,
                   result |-> rest.result]
        /\ frame' = [pc |-> "input"]

\* input() returned `line`: lines 206-220
chat_input(line) ==
    LET user_input == strip(line)
        NextTask == Cardinality(CallsMade) + 1
    IN  /\ frame.pc = "input"
        /\ Len(trace) < MaxChatEvents
        /\ trace' = Append(trace, [kind |-> "line", text |-> line])
        /\ IF lower(user_input) \in {"quit", "exit", "bye"}
           THEN /\ frame' = [pc |-> "ended"]
                /\ UNCHANGED <<conversation_history, clock, tasks, ret>>
           ELSE IF lower(user_input) = "summary"
           THEN /\ ret' = [op |-> "get_conversation_summary",
                           result |-> get_conversation_summary(Self)]
                /\ UNCHANGED <<conversation_history, clock, tasks, frame>>
           ELSE IF user_input = ""
           THEN UNCHANGED <<conversation_history, clock, tasks, ret, frame>>
           ELSE /\ NextTask <= MaxCalls
                /\ IF Connected(Self)
                   THEN /\ tasks' = [tasks EXCEPT ![NextTask] =
                                        [pc |-> "awaiting",
                                         user_message |-> user_input]]
                        /\ frame' = [pc |-> "awaiting"]
                        /\ UNCHANGED <<conversation_history, clock, ret>>
                   ELSE chat_process_finish(NextTask, user_input, None)
        /\ UNCHANGED <<class, client, analysis_history, pc,
                       arg_sentiment_data, arg_user_message, formatted,
                       batch, heap>>

\* the provider answered the call the loop is suspended in
chat_resume(answer) ==
    LET i == CHOOSE i \in 1 .. MaxCalls : tasks[i].pc = "awaiting"
    IN  /\ frame.pc = "awaiting"
        /\ chat_process_finish(i, tasks[i].user_message,
                               parse_result(answer, tasks[i].user_message,
                                            clock))
        /\ UNCHANGED <<class, client, analysis_history, pc,
                       arg_sentiment_data, arg_user_message, formatted,
                       batch, heap, trace>>

\* KeyboardInterrupt inside the try, at input() or while the call is
\* suspended: lines 222-224
chat_keyboard_interrupt ==
    /\ frame.pc \in {"input", "awaiting"}
    /\ Len(trace) < MaxChatEvents
    /\ trace' = Append(trace, [kind |-> "KeyboardInterrupt"])
    /\ frame' = [pc |-> "ended"]
    /\ tasks' = [i \in 1 .. MaxCalls |->
                    IF tasks[i].pc = "awaiting"
                    THEN [tasks[i] EXCEPT !.pc = "interrupted"]
                    ELSE tasks[i]]
    /\ UNCHANGED <<class, client, conversation_history, analysis_history,
                   clock, ret, pc, arg_sentiment_data, arg_user_message,
                   formatted, batch, heap>>

\* input() raised EOFError, an Exception: line 225
chat_eof ==
    /\ frame.pc = "input"
    /\ Len(trace) < MaxChatEvents
    /\ trace' = Append(trace, [kind |-> "EOFError"])
    /\ UNCHANGED <<class, client, conversation_history, analysis_history,
                   tasks, clock, ret, pc, arg_sentiment_data,
                   arg_user_message, formatted, batch, heap, frame>>

NextChat ==
    \/ \E line \in ChatLines : chat_input(line)
    \/ \E answer \in FewAnswers : chat_resume(answer)
    \/ chat_keyboard_interrupt
    \/ chat_eof

SpecChat == InitChat /\ [][NextChat]_vars

-----------------------------------------------------------------------------
(* The test scripts: comprehensive_test of robust_mcp_test.py and          *)
(* comprehensive_gradio_test of fixed_gradio_test.py.  A script has no     *)
(* agent and no client object: its state is the frame of the running       *)
(* function (position, results so far) and the trace of what it has done.  *)
(* What a test function or an HTTP request answers is drawn at each step.  *)

object_vars ==
    <<class, client, conversation_history, analysis_history, tasks, clock,
      ret, pc, arg_sentiment_data, arg_user_message, formatted, batch, heap>>

\* no object was constructed
NoObject ==
    /\ class = "none"
    /\ client = None
    /\ conversation_history = <<>>
    /\ analysis_history = <<>>
    /\ tasks = [i \in 1 .. MaxCalls |-> NoTask]
    /\ clock = 0
    /\ ret = NoCall
    /\ pc = "script"
    /\ arg_sentiment_data = None
    /\ arg_user_message = ""
    /\ formatted = <<>>
    /\ batch = NoBatch
    /\ heap = <<>>

\* the bool values of Python
True == [type |-> "bool", value |-> TRUE]
False == [type |-> "bool", value |-> FALSE]

\* sum(1 for ... in results if success); `if success` is the truth value
\* of a bool, of None or of a dict
passed_of(results) ==
    LET bool(v) == IF v = None THEN FALSE
                   ELSE IF v \in {True, False} THEN v = True
                   ELSE DOMAIN v # {}
    IN  Cardinality({k \in 1 .. Len(results) : bool(results[k].success)})

-----------------------------------------------------------------------------
(* comprehensive_test of robust_mcp_test.py.  The durations that the       *)
(* results carry are printed only and are left out.                        *)

\* the list of lines 199-204
tests ==
    <<"Basic HTTP connectivity", "SSE endpoint", "Gradio API direct",
      "MCP connection">>

record_crash_as_passed(results, test_name, outcome) ==
    Append(results,
           [test_name |-> test_name,
            success |-> IF Returned(outcome) THEN outcome.value ELSE True])

\* lines 213-229: the entry appended for a test that returned or raised
record(results, test_name, outcome) ==
    Append(results,
           [test_name |-> test_name,
            success |-> IF Returned(outcome) THEN outcome.value ELSE False])

\* lines 245-250
verdict(passed, total) ==
    IF passed = total THEN "All tests passed"
    ELSE IF passed > 0 THEN "Some tests passed"
    ELSE "All tests failed"

InitRobust ==
    /\ NoObject
    /\ frame = [pc |-> "tests", results |-> <<>>]
    /\ trace = <<>>

\* one round of the loop of lines 208-229, and after the last round the
\* summary of lines 231-252
run_test(outcome) ==
    /\ frame.pc = "tests"
    /\ LET test_name == tests[Len(frame.results) + 1]
           results == record(frame.results, test_name, outcome)
           passed == passed_of(results)
           total == Len(results)
       IN  /\ trace' = Append(trace, [kind |-> "test", name |-> test_name,
                                      outcome |-> outcome])
           /\ frame' = IF Len(trace') < Len(tests)
                       THEN [pc |-> "tests", results |-> results]
                       ELSE [pc |-> "done", results |-> results,
                             passed |-> passed, total |-> total,
                             verdict |-> verdict(passed, total)]
    /\ UNCHANGED object_vars

\* `await test_func()` returns a bool or raises an Exception
NextRobust ==
    \E outcome \in {Return(True), Return(False), Raise("Exception")} :
        run_test(outcome)

SpecRobust == InitRobust /\ [][NextRobust]_vars

-----------------------------------------------------------------------------
(* fixed_gradio_test.py.  An HTTP request raises or is answered by a       *)
(* response with a status and a body; a body is text that is JSON of some  *)
(* value or is not JSON, as the answers of the provider are.               *)

NotJson == [text |-> "not json"]

Json(v) == [text |-> "json", value |-> v]

Response(status, body) == [kind |-> "response", status |-> status, body |-> body]

RequestFailed == [kind |-> "raise"]

\* lines 27-32
info_endpoints == <<"/info", "/config", "/api", "/api/v1/info">>

\* the round of a loop ends without a return and the next round begins
Continue == [kind |-> "continue"]

\* lines 36-53, one round of the loop over info_endpoints: the info that is
\* returned, Raise when the except of line 51 is entered, Continue when the
\* status is not 200.  `'named_endpoints' in info` raises TypeError on None.
probe_info(answer) ==
    IF answer.kind = "raise" THEN Raise("ClientError")
    ELSE IF answer.status # 200 THEN Continue
    ELSE LET info == json_loads(answer.body)
         IN  IF ~Returned(info) THEN Raise("ContentTypeError")
             ELSE IF info.value = None THEN Raise("TypeError")
             ELSE Return(info.value)

\* lines 271-276
gradio_tests ==
    <<"API Discovery", "Gradio Client", "Manual API Calls", "MCP Connection">>

working_if_two(passed) == passed >= 2

\* line 310
working(passed) == passed >= 1

\* the frame after a test has ended with `outcome`: the entry of lines
\* 283-294 is appended as in comprehensive_test, then comes the next round
\* of the loop of line 280 or, after the last one, the summary of lines
\* 296-314
after_test(results, test_name, outcome) ==
    LET new == record(results, test_name, outcome)
    IN  IF Len(new) < Len(gradio_tests)
        THEN [pc |-> "tests", results |-> new]
        ELSE [pc |-> "done", results |-> new, passed |-> passed_of(new),
              total |-> Len(new), working |-> working(passed_of(new))]

InitGradio ==
    /\ NoObject
    /\ frame = [pc |-> "probe"]
    /\ trace = <<>>

\* lines 255-268: the connectivity probe
gradio_probe(answer) ==
    /\ frame.pc = "probe"
    /\ trace' = Append(trace, [kind |-> "probe", answer |-> answer])
    /\ frame' = IF answer.kind = "response" /\ answer.status = 200
                THEN [pc |-> "discover", k |-> 1, results |-> <<>>]
                ELSE [pc |-> "returned"]
    /\ UNCHANGED object_vars

\* the first round of the loop of line 280 runs discover_gradio_endpoints:
\* one GET of lines 35-53, then the return of line 49 or of line 56
discover_get(answer) ==
    /\ frame.pc = "discover"
    /\ LET info == probe_info(answer)
           get == [kind |-> "get", url |-> info_endpoints[frame.k],
                   answer |-> answer]
           outcome == IF Returned(info) THEN info ELSE Return(None)
       IN  IF Returned(info) \/ frame.k = Len(info_endpoints)
           THEN /\ trace' = trace \o <<get, [kind |-> "test",
                                               name |-> gradio_tests[1],
                                               outcome |-> outcome]>>
                /\ frame' = after_test(frame.results, gradio_tests[1], outcome)
           ELSE /\ trace' = Append(trace, get)
                /\ frame' = [frame EXCEPT !.k = @ + 1]
    /\ UNCHANGED object_vars

\* a later round of the loop of line 280
gradio_run_test(outcome) ==
    /\ frame.pc = "tests"
    /\ LET test_name == gradio_tests[Len(frame.results) + 1]
       IN  /\ trace' = Append(trace, [kind |-> "test", name |-> test_name,
                                      outcome |-> outcome])
           /\ frame' = after_test(frame.results, test_name, outcome)
    /\ UNCHANGED object_vars

\* The info endpoints send null (the JSON of None), {}, an object without
\* or an object with the key named_endpoints.
NextGradio ==
    \/ \E answer \in {RequestFailed, Response(503, NotJson),
                       Response(200, NotJson)} : gradio_probe(answer)
    \/ \E answer \in
            {RequestFailed, Response(404, NotJson), Response(200, NotJson),
             Response(200, Json(None)),
             Response(200, Json([k \in {} |-> ""])),
             Response(200, Json([version |-> "4.0"])),
             Response(200, Json([named_endpoints |-> [predict |-> "fn"]]))} :
          discover_get(answer)
    \/ \E outcome \in {Return(True), Return(False), Raise("Exception")} :
          gradio_run_test(outcome)

SpecGradio == InitGradio /\ [][NextGradio]_vars

-----------------------------------------------------------------------------
(* test_manual_api_calls of fixed_gradio_test.py.  Most attempts of a run  *)
(* are answered with status 404; at most MaxOddAnswers attempts of a run   *)
(* are answered otherwise.                                                 *)

MaxOddAnswers == 2   \* attempts of one run not answered with 404

\* lines 113-127
payloads ==
    << [data |-> <<"I love this technology!">>, fn_index |-> 0],
       [data |-> <<"I love this technology!">>],
       [inputs |-> <<"I love this technology!">>],
       [text |-> "I love this technology!"] >>

\* lines 130-136
endpoints ==
    <<"/api/predict", "/call/predict", "/run/predict", "/predict",
      "/api/v1/predict">>

\* lines 146-173, one attempt: Return(True) of line 166, Raise when the
\* except of line 171 is entered (the request or response.json() raised,
\* or `'data' in result` did on None), Continue after a status that is not
\* 200
post(answer) ==
    IF answer.kind = "raise" THEN Raise("ClientError")
    ELSE IF answer.status = 200
         THEN LET result == json_loads(answer.body)
              IN  IF ~Returned(result) THEN Raise("ContentTypeError")
                  ELSE IF result.value = None THEN Raise("TypeError")
                  ELSE Return(True)
    ELSE Continue

InitManual ==
    /\ NoObject
    /\ frame = [pc |-> "attempts", e |-> 1, p |-> 1]
    /\ trace = <<>>

\* one round of the inner loop of line 145
manual_post(answer) ==
    /\ frame.pc = "attempts"
    /\ LET OddAnswers == {k \in 1 .. Len(trace) :
                              trace[k].answer # Response(404, NotJson)}
       IN  answer # Response(404, NotJson) =>
              Cardinality(OddAnswers) < MaxOddAnswers
    /\ trace' = Append(trace, [kind |-> "post", endpoint |-> endpoints[frame.e],
                               payload |-> payloads[frame.p],
                               answer |-> answer])
    /\ frame' = IF Returned(post(answer))
                THEN [pc |-> "returned", value |-> True]
                ELSE IF frame.p < Len(payloads)
                THEN [frame EXCEPT !.p = @ + 1]
                ELSE IF frame.e < Len(endpoints)
                THEN [frame EXCEPT !.e = @ + 1, !.p = 1]
                ELSE [pc |-> "returned", value |-> False]
    /\ UNCHANGED object_vars

NextManual ==
    \E answer \in
        {RequestFailed, Response(404, NotJson), Response(200, NotJson),
         Response(200, Json(None)),
         Response(200, Json([data |-> <<"not json">>])),
         Response(200, Json([detail |-> "ok"]))} : manual_post(answer)

SpecManual == InitManual /\ [][NextManual]_vars

-----------------------------------------------------------------------------
(* analyze_file_changes of server.py.  The tool is called with include_diff *)
(* and max_diff_lines; what list_roots and the three git commands answer   *)
(* is drawn at each step.  A CompletedProcess always has the attributes    *)
(* returncode, stdout and stderr, so the hasattr tests of the code hold.   *)

MaxDiffLimit == 3   \* largest max_diff_lines besides the default of 500

\* s.split('\n')
RECURSIVE split(_)
split(s) ==
    LET newlines == {i \in 1 .. Len(s) : SubSeq(s, i, i) = "\n"}
    IN  IF newlines = {} THEN <<s>>
        ELSE LET i == CHOOSE i \in newlines : \A j \in newlines : i <= j
             IN  <<SubSeq(s, 1, i - 1)>> \o split(SubSeq(s, i + 1, Len(s)))

\* '\n'.join(lines)
RECURSIVE join(_)
join(lines) ==
    IF lines = <<>> THEN ""
    ELSE IF Len(lines) = 1 THEN lines[1]
    ELSE lines[1] \o "\n" \o join(Tail(lines))

\* lines[:n] of Python: a negative n counts from the end
slice_to(lines, n) ==
    IF n >= 0 THEN SubSeq(lines, 1, IF n < Len(lines) THEN n ELSE Len(lines))
    ELSE SubSeq(lines, 1, IF Len(lines) + n > 0 THEN Len(lines) + n ELSE 0)

\* lines 77 and 101
is_truncated(diff_lines, max_diff_lines) == Len(diff_lines) > max_diff_lines

\* lines 78-79
truncated_diff(diff_lines, max_diff_lines) ==
    join(slice_to(diff_lines, max_diff_lines))
        \o "\n\n... Output truncated. Showing " \o ToString(max_diff_lines)
        \o " of " \o ToString(Len(diff_lines)) \o " lines ..."

\* what subprocess.run returns when it does not raise
CompletedProcess(returncode, stdout, stderr) ==
    [kind |-> "completed", returncode |-> returncode, stdout |-> stdout,
     stderr |-> stderr]

\* the frame when the function has returned `value`: the arguments and the
\* locals stay as they were
return(value) == [value |-> value] @@ [frame EXCEPT !.pc = "returned"]

InitServer ==
    /\ NoObject
    /\ \E include_diff \in BOOLEAN,
          max_diff_lines \in (-1 .. MaxDiffLimit) \cup {500} :
          frame = [pc |-> "roots", include_diff |-> include_diff,
                   max_diff_lines |-> max_diff_lines]
    /\ trace = <<>>

\* lines 43-50: the roots of the MCP context
list_roots(answer) ==
    /\ frame.pc = "roots"
    /\ trace' = Append(trace, [kind |-> "list_roots", answer |-> answer])
    /\ frame' = [pc |-> "diff", include_diff |-> frame.include_diff,
                 max_diff_lines |-> frame.max_diff_lines,
                 working_dir |->
                    IF answer.kind = "raise" THEN None
                    ELSE IF answer.roots # <<>>
                    THEN [path |-> answer.roots[1]]
                    ELSE None]
    /\ UNCHANGED object_vars

\* lines 52-80: git diff, the error return of line 69, the truncation; an
\* exception is returned by the except of line 106
run_diff(diff_result) ==
    /\ frame.pc = "diff"
    /\ trace' = Append(trace, [kind |-> "run", cmd |-> "git diff",
                               cwd |-> frame.working_dir,
                               run |-> diff_result])
    /\ frame' =
          IF diff_result.kind = "raise"
          THEN return(Json([error |-> "Failed to analyze changes: error"]))
          ELSE IF diff_result.returncode # 0 /\ diff_result.stderr # ""
          THEN return(Json([error |-> "Git diff failed: " \o diff_result.stderr]))
          ELSE LET diff_lines == IF diff_result.stdout # ""
                                 THEN split(diff_result.stdout)
                                 ELSE <<"">>
               IN  [pc |-> "stat", include_diff |-> frame.include_diff,
                    max_diff_lines |-> frame.max_diff_lines,
                    working_dir |-> frame.working_dir,
                    diff_lines |-> diff_lines,
                    diff_output |->
                        IF is_truncated(diff_lines, frame.max_diff_lines)
                        THEN truncated_diff(diff_lines, frame.max_diff_lines)
                        ELSE diff_result.stdout]
    /\ UNCHANGED object_vars

\* lines 82-87: git diff --stat
run_stat(stats_result) ==
    /\ frame.pc = "stat"
    /\ trace' = Append(trace, [kind |-> "run", cmd |-> "git diff --stat",
                               cwd |-> frame.working_dir,
                               run |-> stats_result])
    /\ frame' =
          IF stats_result.kind = "raise"
          THEN return(Json([error |-> "Failed to analyze changes: error"]))
          ELSE [stats |-> stats_result.stdout] @@ [frame EXCEPT !.pc = "files"]
    /\ UNCHANGED object_vars

\* lines 89-104: git diff --name-status and the result
run_files(files_result) ==
    /\ frame.pc = "files"
    /\ trace' = Append(trace, [kind |-> "run", cmd |-> "git diff --name-status",
                               cwd |-> frame.working_dir,
                               run |-> files_result])
    /\ frame' =
          IF files_result.kind = "raise"
          THEN return(Json([error |-> "Failed to analyze changes: error"]))
          ELSE return(Json(
                   [stats |-> frame.stats,
                    total_lines |-> Len(frame.diff_lines),
                    diff |-> IF frame.include_diff THEN frame.diff_output
                             ELSE "Use include_diff = True to see diff",
                    files_changed |-> files_result.stdout,
                    truncated |-> is_truncated(frame.diff_lines,
                                               frame.max_diff_lines)]))
    /\ UNCHANGED object_vars

\* list_roots raises, gives no roots or gives one; subprocess.run raises
\* (git is not installed, the directory does not exist) or returns a
\* CompletedProcess
NextServer ==
    \/ \E answer \in {[kind |-> "raise"], [kind |-> "roots", roots |-> <<>>],
                      [kind |-> "roots", roots |-> <<"/repo">>]} :
          list_roots(answer)
    \/ \E diff_result \in
            {[kind |-> "raise"],
             CompletedProcess(128, "", "fatal: bad revision"),
             CompletedProcess(1, "a\nb", ""),
             CompletedProcess(-9, "", ""),
             CompletedProcess(0, "a\nb", "warning: LF will be replaced")}
            \cup {CompletedProcess(0, out, "") :
                     out \in {"", "a", "a\nb", "a\nb\n", "a\nb\nc\n"}} :
          run_diff(diff_result)
    \/ \E stats_result \in
            {[kind |-> "raise"], CompletedProcess(0, " 1 file changed", "")} :
          run_stat(stats_result)
    \/ \E files_result \in
            {[kind |-> "raise"], CompletedProcess(0, "M server.py", "")} :
          run_files(files_result)

SpecServer == InitServer /\ [][NextServer]_vars

-----------------------------------------------------------------------------
(* SpecRespond: one call of generate_empathetic_response on a fresh agent, *)
(* its arguments drawn from the whole grid.                                *)

InitRespond ==
    /\ class = "FixedSmartSentimentAgent"
    /\ client = None
    /\ conversation_history = <<>>
    /\ analysis_history = <<>>
    /\ tasks = [i \in 1 .. MaxCalls |-> NoTask]
    /\ clock = 0
    /\ ret = NoCall
    /\ pc = "ready"
    /\ arg_sentiment_data \in AllMeasurements \cup {None}
    /\ arg_user_message \in Messages
    /\ NoScenario

RespondCall ==
    /\ pc = "ready"
    /\ pc' = "returned"
    /\ ret' = [op |-> "generate_empathetic_response",
               result |-> generate_empathetic_response(
                              Self, arg_sentiment_data, arg_user_message)]
    /\ UNCHANGED <<class, client, conversation_history, analysis_history,
                   tasks, clock, arg_sentiment_data, arg_user_message,
                   scenario_vars>>

NextRespond == RespondCall

SpecRespond == InitRespond /\ [][NextRespond]_vars

-----------------------------------------------------------------------------
(* Reading a reply *)

StartsWith(text, prefix) ==
    /\ Len(text) >= Len(prefix)
    /\ SubSeq(text, 1, Len(prefix)) = prefix

EndsWith(text, suffix) ==
    /\ Len(text) >= Len(suffix)
    /\ SubSeq(text, Len(text) - Len(suffix) + 1, Len(text)) = suffix

Contains(text, part) ==
    \E i \in 1 .. (Len(text) - Len(part) + 1) :
        SubSeq(text, i, i + Len(part) - 1) = part

StrongPositiveReply == "I can feel your enthusiasm! That's wonderful to hear."
MildPositiveReply == "I sense some gentle positivity in your message."
StrongNegativeReply == "I can hear the frustration in your words. I'm here to help."
MildNegativeReply == "I sense some concern in your message. I'm here to listen."
NeutralReply == "I'm listening. Please tell me more about what you need."

BaseReplies ==
    {StrongPositiveReply, MildPositiveReply, StrongNegativeReply,
     MildNegativeReply, NeutralReply}

Qualifiers == {PersonalNote, ObjectiveNote, ""}

\* the call of SpecRespond returned a text for a present measurement
RespondedPresent ==
    /\ pc = "returned"
    /\ arg_sentiment_data # None
    /\ Returned(ret.result)

RespondedText == ret.result.value

-----------------------------------------------------------------------------
(* Claims on generate_empathetic_response, under SpecRespond *)

\* C1: for a present measurement tagged positive the strong-positive base
\* reply is used iff polarity > 0.3 and the mild-positive one otherwise
\* (0.3 itself and polarity <= 0 included); tagged negative, the
\* strong-negative base reply iff polarity < -0.3 and the mild-negative one
\* otherwise (-0.3 itself and polarity >= 0 included).
C1_PolarityBuckets ==
    (pc = "returned" /\ arg_sentiment_data # None) =>
        /\ Returned(ret.result)
        /\ arg_sentiment_data.assessment = "positive" =>
              /\ StartsWith(RespondedText, StrongPositiveReply)
                    <=> arg_sentiment_data.polarity > 3
              /\ StartsWith(RespondedText, MildPositiveReply)
                    <=> arg_sentiment_data.polarity <= 3
        /\ arg_sentiment_data.assessment = "negative" =>
              /\ StartsWith(RespondedText, StrongNegativeReply)
                    <=> arg_sentiment_data.polarity < -3
              /\ StartsWith(RespondedText, MildNegativeReply)
                    <=> arg_sentiment_data.polarity >= -3

C1_Witness ==
    /\ RespondedPresent
    /\ arg_sentiment_data.assessment = "positive"
    /\ arg_sentiment_data.polarity = 3
    /\ StartsWith(RespondedText, MildPositiveReply)

\* C2: for a present measurement tagged neutral the neutral base reply is
\* used at every polarity.
C2_NeutralAnyPolarity ==
    (pc = "returned" /\ arg_sentiment_data # None
        /\ arg_sentiment_data.assessment = "neutral") =>
        /\ Returned(ret.result)
        /\ StartsWith(RespondedText, NeutralReply)

C2_Witness ==
    /\ RespondedPresent
    /\ arg_sentiment_data.assessment = "neutral"
    /\ arg_sentiment_data.polarity = 10
    /\ StartsWith(RespondedText, NeutralReply)

\* C3: the personal qualifier is appended iff subjectivity > 0.7, the
\* objective qualifier iff subjectivity < 0.3, nothing for
\* 0.3 <= subjectivity <= 0.7, and the two never appear together.
C3_SubjectivityQualifier ==
    (pc = "returned" /\ arg_sentiment_data # None) =>
        /\ Returned(ret.result)
        /\ EndsWith(RespondedText, PersonalNote)
              <=> arg_sentiment_data.subjectivity > 7
        /\ EndsWith(RespondedText, ObjectiveNote)
              <=> arg_sentiment_data.subjectivity < 3
        /\ (arg_sentiment_data.subjectivity >= 3
              /\ arg_sentiment_data.subjectivity <= 7)
              => RespondedText \in BaseReplies
        /\ ~(Contains(RespondedText, PersonalNote)
              /\ Contains(RespondedText, ObjectiveNote))

C3_Witness ==
    /\ RespondedPresent
    /\ arg_sentiment_data.subjectivity = 7
    /\ RespondedText \in BaseReplies

\* C4: with an absent measurement the call returns the fixed fallback
\* prompt, nothing appended, and does not raise, whatever the user message.
C4_AbsentFallback ==
    (pc = "returned" /\ arg_sentiment_data = None) =>
        ret.result = Return(FallbackPrompt)

C4_Witness ==
    /\ pc = "returned"
    /\ arg_sentiment_data = None
    /\ arg_user_message = "This is awful"
    /\ ret.result = Return(FallbackPrompt)

\* the reply to the measurement of the call with some fields replaced
ReplyTo(sentiment_data) ==
    generate_empathetic_response(Self, sentiment_data, arg_user_message)

\* C5: the reply to a present measurement is a base reply followed by a
\* qualifier; another subjectivity leaves the base reply as it is, another
\* assessment or polarity leaves the qualifier as it is; polarity 0.8,
\* subjectivity 0.9, positive gives the strong-positive reply followed by
\* the personal qualifier.
C5_BaseThenQualifier ==
    (pc = "returned" /\ arg_sentiment_data # None) =>
        /\ Returned(ret.result)
        /\ \E b \in BaseReplies, q \in Qualifiers :
              /\ RespondedText = b \o q
              /\ \A s \in Subjectivities :
                    LET r == ReplyTo([arg_sentiment_data EXCEPT !.subjectivity = s])
                    IN  Returned(r) /\ \E q2 \in Qualifiers : r.value = b \o q2
              /\ \A a \in Assessments, p \in Polarities :
                    LET r == ReplyTo([arg_sentiment_data EXCEPT
                                         !.assessment = a, !.polarity = p])
                    IN  Returned(r) /\ \E b2 \in BaseReplies : r.value = b2 \o q
        /\ (arg_sentiment_data.polarity = 8
              /\ arg_sentiment_data.subjectivity = 9
              /\ arg_sentiment_data.assessment = "positive")
              => RespondedText = StrongPositiveReply \o PersonalNote

C5_Witness ==
    /\ RespondedPresent
    /\ arg_sentiment_data.polarity = 8
    /\ arg_sentiment_data.subjectivity = 9
    /\ arg_sentiment_data.assessment = "positive"
    /\ RespondedText = StrongPositiveReply \o PersonalNote

-----------------------------------------------------------------------------
(* Claims on the agent and its history, under Spec *)

\* two sentiments stand for the same measurement (or are both absent)
SameMeasurement(a, b) ==
    IF a = None \/ b = None THEN a = b
    ELSE /\ a.polarity = b.polarity
         /\ a.subjectivity = b.subjectivity
         /\ a.assessment = b.assessment

\* the replies made of the first candidate of a bucket
FirstCandidateReplies ==
    {FallbackPrompt} \cup {b \o q : b \in BaseReplies, q \in Qualifiers}

\* C6: the reply is never empty, is built on the first candidate of its
\* bucket, and is the same text for the same measurement (present or
\* absent) whatever the history held when it was computed and wherever the
\* call came from.
C6_Deterministic ==
    /\ \A i \in 1 .. Len(conversation_history) :
          LET e == conversation_history[i]
          IN  /\ Len(e.agent_response) > 0
              /\ e.agent_response \in FirstCandidateReplies
              /\ \A j \in 1 .. Len(conversation_history) :
                    SameMeasurement(e.sentiment,
                                    conversation_history[j].sentiment)
                    => e.agent_response = conversation_history[j].agent_response
              /\ (ret.op = "generate_empathetic_response"
                    /\ SameMeasurement(ret.sentiment_data, e.sentiment))
                    => ret.result = Return(e.agent_response)
    /\ ret.op = "generate_empathetic_response" =>
          /\ Returned(ret.result)
          /\ Len(ret.result.value) > 0
          /\ ret.result.value \in FirstCandidateReplies

C6_Witness ==
    /\ Len(conversation_history) = 2
    /\ conversation_history[1].sentiment # None
    /\ SameMeasurement(conversation_history[1].sentiment,
                       conversation_history[2].sentiment)
    /\ ret.op = "generate_empathetic_response"
    /\ SameMeasurement(ret.sentiment_data, conversation_history[2].sentiment)
    /\ ret.result = Return(conversation_history[1].agent_response)

\* a step that ends a process_user_input call by its append
IsAppendStep ==
    \E i \in 1 .. MaxCalls :
        /\ tasks[i].pc \in {"idle", "awaiting"}
        /\ tasks'[i].pc = "return"
        /\ ret'.op = "process_user_input" /\ ret'.task = i
        /\ Len(conversation_history') = Len(conversation_history) + 1
        /\ SubSeq(conversation_history', 1, Len(conversation_history))
              = conversation_history
        /\ conversation_history'[Len(conversation_history')].user_message
              = tasks'[i].user_message

\* C7: a call of generate_empathetic_response leaves conversation_history
\* and client as they are, and the history changes only in the append step
\* of process_user_input.
C7_GenerateHasNoEffect ==
    [][ /\ (\E sd \in CallerSentiments, msg \in Messages : generate_call(sd, msg))
              => UNCHANGED <<conversation_history, client, tasks, clock>>
        /\ (conversation_history' # conversation_history) => IsAppendStep
      ]_vars

C7_Witness ==
    /\ ret.op = "generate_empathetic_response"
    /\ ret.sentiment_data # None
    /\ Len(conversation_history) = 1
    /\ client # None

ReturnedCalls == {i \in 1 .. MaxCalls : tasks[i].pc = "return"}

\* C8: the history is empty as long as no call was made, every
\* process_user_input call that returned appended exactly one record, with
\* an absent measurement when none arrived, and the records never outnumber
\* the calls made.
C8_OneRecordPerCall ==
    /\ CallsMade = {} => conversation_history = <<>>
    /\ Len(conversation_history) = Cardinality(ReturnedCalls)
    /\ Len(conversation_history) <= Cardinality(CallsMade)
    /\ (ret.op = "process_user_input" /\ Returned(ret.result)) =>
          /\ conversation_history # <<>>
          /\ conversation_history[Len(conversation_history)].sentiment
                = ret.result.value[2]
          /\ conversation_history[Len(conversation_history)].agent_response
                = ret.result.value[1]

C8_Witness ==
    /\ client # None
    /\ Len(conversation_history) = 2
    /\ conversation_history[2].sentiment = None
    /\ conversation_history[1].sentiment # None
    /\ ret.op = "process_user_input"
    /\ ret.result.kind = "return"

AbsentRecords ==
    {i \in 1 .. Len(conversation_history) :
        conversation_history[i].sentiment = None}

PresentRecords == (1 .. Len(conversation_history)) \ AbsentRecords

\* the history without the records at the positions `dropped`
RECURSIVE Without(_, _, _)
Without(history, dropped, i) ==
    IF i > Len(history) THEN <<>>
    ELSE (IF i \in dropped THEN <<>> ELSE <<history[i]>>)
         \o Without(history, dropped, i + 1)

\* the summary of the agent with some absent records taken out
SummaryWithout(dropped) ==
    get_conversation_summary(
        [Self EXCEPT !.conversation_history =
                         Without(conversation_history, dropped, 1)])

\* the summary of the agent now; the one just returned when the last call
\* was get_conversation_summary
SummaryNow ==
    IF ret.op = "get_conversation_summary" THEN ret.result
    ELSE get_conversation_summary(Self)

\* C9, as claimed: histories holding the same sequence of present
\* measurements have the same summary, however many absent records each
\* holds.
C9_AbsentNeverCounts ==
    \A dropped \in SUBSET AbsentRecords : SummaryWithout(dropped) = SummaryNow

\* C9, amended: the same, for histories holding at least one present
\* measurement; without any, the summary is NoConversationData for the
\* empty history and NoSentimentData for a history of absent records.
C9_AbsentNeverCountsAmongPresent ==
    /\ PresentRecords # {} =>
          /\ \A dropped \in SUBSET AbsentRecords :
                SummaryWithout(dropped) = SummaryNow
          /\ Returned(SummaryNow)
          /\ SummaryNow.value.total = Cardinality(PresentRecords)
    /\ PresentRecords = {} =>
          SummaryNow = IF conversation_history = <<>>
                       THEN Return(NoConversationData)
                       ELSE Return(NoSentimentData)

C9_Witness ==
    /\ ret.op = "get_conversation_summary"
    /\ Cardinality(AbsentRecords) = 1
    /\ Cardinality(PresentRecords) = 1
    /\ Returned(ret.result)
    /\ ret.result.value.total = 1

\* C10: with no present measurement in the history the summary is a "no
\* data" text: it does not raise, by a division by zero or otherwise.  The
\* same for get_summary of the client on an empty analysis_history.
C10_NoDataSentinel ==
    /\ (class = "FixedSmartSentimentAgent" /\ PresentRecords = {}) =>
          /\ get_conversation_summary(Self)
                \in {Return(NoConversationData), Return(NoSentimentData)}
          /\ ret.op = "get_conversation_summary" =>
                ret.result \in {Return(NoConversationData),
                                Return(NoSentimentData)}
    /\ (class = "WorkingSentimentClient" /\ analysis_history = <<>>) =>
          /\ get_summary(Self) = Return(NoAnalysisHistory)
          /\ ret.op = "get_summary" => ret.result = Return(NoAnalysisHistory)

C10_Witness ==
    /\ ret.op = "get_conversation_summary"
    /\ Len(conversation_history) = 2
    /\ PresentRecords = {}
    /\ ret.result = Return(NoSentimentData)

-----------------------------------------------------------------------------
(* Claims on the order of the history *)

IsPrefix(s, t) == Len(s) <= Len(t) /\ SubSeq(t, 1, Len(s)) = s

\* the history of an earlier moment is a prefix of the history of every
\* later moment: it holds under Spec and under SpecSequential
C11_AppendOnly ==
    [][IsPrefix(conversation_history, conversation_history')]_vars

\* C11: no record is ever removed, replaced or reordered, and with calls
\* made one after another the k-th record holds the user message of the
\* k-th process_user_input call (the calls are numbered in the order they
\* are made: the k-th call is tasks[k]).
C11_AppendOnlyInCallOrder ==
    /\ [][IsPrefix(conversation_history, conversation_history')]_vars
    /\ [](\A k \in 1 .. Len(conversation_history) :
              conversation_history[k].user_message = tasks[k].user_message)

-----------------------------------------------------------------------------
(* Claims on the summaries, under SpecSummary *)

\* the measurements the object holds, in order
HeldMeasurements ==
    IF class = "FixedSmartSentimentAgent"
    THEN LET Present(e) == e.sentiment # None
             kept == SelectSeq(conversation_history, Present)
         IN  [i \in 1 .. Len(kept) |-> kept[i].sentiment]
    ELSE analysis_history

HeldCount == Len(HeldMeasurements)

RECURSIVE TotalPolarity(_)
TotalPolarity(ms) ==
    IF ms = <<>> THEN 0 ELSE Head(ms).polarity + TotalPolarity(Tail(ms))

RECURSIVE TotalSubjectivity(_)
TotalSubjectivity(ms) ==
    IF ms = <<>> THEN 0 ELSE Head(ms).subjectivity + TotalSubjectivity(Tail(ms))

Tagged(tag) ==
    Cardinality({i \in 1 .. HeldCount : HeldMeasurements[i].assessment = tag})

\* the fraction q is a / b
IsQuotient(q, a, b) == q.den > 0 /\ q.num * b = a * q.den

SummaryReturned == ret.op \in {"get_conversation_summary", "get_summary"}

\* C12: over n >= 1 measurements tagged positive, negative or neutral the
\* summary reports total n, the sums of polarity and of subjectivity
\* divided by n, three counts that add up to n and three percentages
\* count/n*100 that add up to 100; polarities 0.5, -0.5, 0.0 tagged
\* positive, negative, neutral give mean polarity 0.0 and a third each.
C12_SummaryStatistics ==
    (/\ SummaryReturned
     /\ HeldCount >= 1
     /\ \A i \in 1 .. HeldCount :
           HeldMeasurements[i].assessment \in {"positive", "negative", "neutral"})
    =>
    /\ Returned(ret.result)
    /\ LET r == ret.result.value
           n == HeldCount
       IN  /\ r.total = n
           /\ IsQuotient(r.avg_polarity, TotalPolarity(HeldMeasurements), n)
           /\ IsQuotient(r.avg_subjectivity,
                         TotalSubjectivity(HeldMeasurements), n)
           /\ r.pos_count = Tagged("positive")
           /\ r.neg_count = Tagged("negative")
           /\ r.neu_count = Tagged("neutral")
           /\ r.pos_count + r.neg_count + r.neu_count = n
           /\ IsQuotient(r.pos_pct, r.pos_count * 100, n)
           /\ IsQuotient(r.neg_pct, r.neg_count * 100, n)
           /\ IsQuotient(r.neu_pct, r.neu_count * 100, n)
           /\ r.pos_pct.num * r.neg_pct.den * r.neu_pct.den
                 + r.neg_pct.num * r.pos_pct.den * r.neu_pct.den
                 + r.neu_pct.num * r.pos_pct.den * r.neg_pct.den
                 = 100 * r.pos_pct.den * r.neg_pct.den * r.neu_pct.den
           /\ (/\ n = 3
               /\ HeldMeasurements[1].polarity = 5
               /\ HeldMeasurements[1].assessment = "positive"
               /\ HeldMeasurements[2].polarity = -5
               /\ HeldMeasurements[2].assessment = "negative"
               /\ HeldMeasurements[3].polarity = 0
               /\ HeldMeasurements[3].assessment = "neutral")
              => /\ r.avg_polarity = [num |-> 0, den |-> 1]
                 /\ r.pos_pct = [num |-> 100, den |-> 3]
                 /\ r.neg_pct = [num |-> 100, den |-> 3]
                 /\ r.neu_pct = [num |-> 100, den |-> 3]

C12_Witness ==
    /\ ret.op = "get_conversation_summary"
    /\ Len(conversation_history) = 3
    /\ HeldCount = 3
    /\ HeldMeasurements[1].polarity = 5
    /\ HeldMeasurements[2].polarity = -5
    /\ HeldMeasurements[3].polarity = 0
    /\ Returned(ret.result)
    /\ ret.result.value.avg_polarity = [num |-> 0, den |-> 1]
    /\ ret.result.value.pos_pct = [num |-> 100, den |-> 3]

-----------------------------------------------------------------------------
(* Claims on the formatting, under SpecFormat *)

\* the first place of part in text at or after from, 0 when there is none
Find(text, part, from) ==
    LET at == {i \in from .. (Len(text) - Len(part) + 1) :
                  SubSeq(text, i, i + Len(part) - 1) = part}
    IN  IF at = {} THEN 0 ELSE CHOOSE i \in at : \A j \in at : i <= j

\* the cells between the brackets of the line that starts with label
BarOf(text, label) ==
    LET line == Find(text, "\n" \o label, 1)
        open == Find(text, "[", line)
        close == Find(text, "]", open)
    IN  SubSeq(text, open + 1, close - 1)

\* n full cells, then empty cells
FilledFirst(bar, n) == bar = Repeat("#", n) \o Repeat("-", Len(bar) - n)

\* a / b truncated, for a >= 0 and b > 0
Truncated(a, b) == CHOOSE n \in 0 .. a : n * b <= a /\ a < (n + 1) * b

IconsOf(assessment) ==
    IF assessment = "positive"
    THEN <<"(smiling face)", "(green circle)", "Positive">>
    ELSE IF assessment = "negative"
    THEN <<"(crying face)", "(red circle)", "Negative">>
    ELSE <<"(neutral face)", "(white circle)", "Neutral">>

\* C15: formatting is a pure function of the measurement: format_result
\* (or format_sentiment_display) called twice on the same measurement gives
\* the same output and changes no state, and the icons and the label are
\* fixed by the assessment alone: positive, negative, anything else as
\* neutral.
C15_FormatIsPure ==
    /\ [][UNCHANGED <<class, client, conversation_history, analysis_history,
                      clock, arg_sentiment_data>>]_vars
    /\ [](\A i, j \in 1 .. Len(formatted) : formatted[i] = formatted[j])
    /\ []((formatted # <<>> /\ arg_sentiment_data # None) =>
            /\ Returned(formatted[1])
            /\ LET text == formatted[1].value
                   icons == IconsOf(arg_sentiment_data.assessment)
               IN  IF class = "WorkingSentimentClient"
                   THEN /\ StartsWith(text, icons[1] \o " Sentiment")
                        /\ Contains(text, "\n" \o icons[2] \o " Assessment: ")
                   ELSE StartsWith(text, icons[2] \o " " \o icons[1] \o " "
                                         \o icons[3] \o " (polarity: "))

C15_Witness ==
    /\ Len(formatted) = 2
    /\ arg_sentiment_data # None
    /\ arg_sentiment_data.assessment = "mixed"
    /\ arg_sentiment_data.polarity = 8
    /\ formatted[1] = formatted[2]
    /\ formatted[2] = Return("(white circle) (neutral face) Neutral "
                             \o "(polarity: +0.50, subjectivity: 0.38)")

-----------------------------------------------------------------------------
(* Claim on the ownership of the history, under SpecInstances *)

\* C16: each object owns its history exclusively: whatever is called on
\* one of two distinct objects of a class, the history of the other one is
\* left as it was.
C16_HistoryOwnedByInstance ==
    [][\A a, b \in Instances :
          (a # b /\ ret'.instance = a) => HistoryOf(b)' = HistoryOf(b)]_vars

C16_Witness ==
    \E a, b \in Instances :
        /\ a # b
        /\ heap[a].history # heap[b].history
        /\ ret.op \in {"process_user_input", "analyze_sentiment"}
        /\ ret.instance = a
        /\ Len(HistoryOf(a)) = 2
        /\ Len(HistoryOf(b)) = 1

-----------------------------------------------------------------------------
(* Claims on failures and on overlapping calls, under Spec *)

IsMeasurement(v) == v # None /\ MeasurementKeys \subseteq DOMAIN v

\* C17: analyze_sentiment turns every failure into an absent measurement:
\* what it returns is None or a measurement and it never raises, so that
\* no failure of the provider makes its way into a reply or a summary: no
\* process_user_input call and no summary raises, and the histories hold
\* measurements (or None) only.
C17_FailuresBecomeAbsent ==
    /\ ret.op = "analyze_sentiment" =>
          /\ Returned(ret.result)
          /\ ret.result.value = None \/ IsMeasurement(ret.result.value)
    /\ ret.op = "process_user_input" => Returned(ret.result)
    /\ ret.op \in {"get_conversation_summary", "get_summary"} =>
          Returned(ret.result)
    /\ \A i \in 1 .. Len(analysis_history) :
          IsMeasurement(analysis_history[i])
    /\ \A i \in 1 .. Len(conversation_history) :
          \/ conversation_history[i].sentiment = None
          \/ IsMeasurement(conversation_history[i].sentiment)

\* the records that hold the message msg, and the calls that returned on it
RecordsOf(msg) ==
    {k \in 1 .. Len(conversation_history) :
        conversation_history[k].user_message = msg}

ReturnedCallsOf(msg) == {i \in ReturnedCalls : tasks[i].user_message = msg}

\* C18: when process_user_input calls on one agent overlap, no record is
\* lost or mixed: the history holds exactly one record per call that ran to
\* its return, and the sentiment and the agent_response of a record are the
\* ones computed for the user_message of that record, under every
\* interleaving.
C18_NoRecordLostOrMixed ==
    /\ \A msg \in Messages :
          Cardinality(RecordsOf(msg)) = Cardinality(ReturnedCallsOf(msg))
    /\ \A k \in 1 .. Len(conversation_history) :
          LET e == conversation_history[k]
          IN  /\ e.sentiment # None => e.sentiment.text = e.user_message
              /\ e.sentiment # None => e.sentiment.timestamp < e.timestamp
              /\ Return(e.agent_response)
                    = generate_empathetic_response(
                          [client |-> TheClient,
                           conversation_history |-> <<>>,
                           analysis_history |-> <<>>],
                          e.sentiment, e.user_message)
              /\ \A j \in 1 .. Len(conversation_history) :
                    j # k => conversation_history[j].timestamp # e.timestamp

\* the call begun second returned first, and the two were on different
\* messages and measurements
C18_Witness ==
    /\ Len(conversation_history) = 2
    /\ tasks[1].pc = "return"
    /\ tasks[2].pc = "return"
    /\ tasks[1].user_message # tasks[2].user_message
    /\ conversation_history[1].user_message = tasks[2].user_message
    /\ conversation_history[2].user_message = tasks[1].user_message
    /\ conversation_history[1].sentiment # None
    /\ conversation_history[2].sentiment # None
    /\ conversation_history[1].sentiment.polarity
          # conversation_history[2].sentiment.polarity

\* C19: analyze_sentiment of the client appends exactly one entry, the
\* value it returns, if and only if it returns one; when it returns None
\* analysis_history is left as it was, and nothing else appends: the
\* history never holds an absent entry and is as long as the number of
\* analyses that returned a value (one clock read each).
C19_AppendsIffReturned ==
    /\ [][IF ret'.op = "analyze_sentiment"
          THEN /\ Returned(ret'.result)
               /\ IF ret'.result.value = None
                  THEN analysis_history' = analysis_history
                  ELSE analysis_history'
                          = Append(analysis_history, ret'.result.value)
          ELSE analysis_history' = analysis_history]_vars
    /\ [](\A i \in 1 .. Len(analysis_history) : analysis_history[i] # None)
    /\ [](class = "WorkingSentimentClient"
             => Len(analysis_history) = clock)

C19_Witness ==
    /\ class = "WorkingSentimentClient"
    /\ client # None
    /\ Len(analysis_history) = 2
    /\ clock = 2
    /\ ret.op = "analyze_sentiment"
    /\ ret.result = Return(None)

-----------------------------------------------------------------------------
(* Claim on analyze_batch, under SpecBatch *)

\* the provider sent a JSON object
Delivered(answer) ==
    /\ answer.kind = "str"
    /\ answer.text = "json"
    /\ answer.value # JsonArray

\* the texts of the last batch whose analysis returned a value
Succeeded ==
    {i \in 1 .. Len(batch.texts) : client # None /\ Delivered(batch.answers[i])}

\* the k-th of them
NthSucceeded(k) ==
    CHOOSE i \in Succeeded : Cardinality({j \in Succeeded : j <= i}) = k

\* C20: analyze_batch analyses every text once, in the order of the input,
\* a failure on one text does not stop the texts after it, and the list it
\* returns holds what the successful analyses returned, in the order of the
\* input: it is no longer than the input and as long as the number of
\* entries the batch added to analysis_history.
C20_BatchResults ==
    ret.op = "analyze_batch" =>
    /\ Returned(ret.result)
    /\ LET results == ret.result.value
       IN  /\ Len(results) = Cardinality(Succeeded)
           /\ Len(results) <= Len(batch.texts)
           /\ Len(results) = Len(analysis_history) - batch.entered_with
           /\ \A k \in 1 .. Len(results) :
                 /\ results[k] = analysis_history[batch.entered_with + k]
                 /\ results[k].text = batch.texts[NthSucceeded(k)]
                 /\ results[k].timestamp = clock - Len(results) + k - 1
                 /\ \A key \in DOMAIN batch.answers[NthSucceeded(k)].value :
                       results[k][key]
                          = batch.answers[NthSucceeded(k)].value[key]

C20_Witness ==
    /\ ret.op = "analyze_batch"
    /\ Len(batch.texts) = 2
    /\ batch.texts[1] # batch.texts[2]
    /\ batch.answers[1].kind = "raise"
    /\ batch.entered_with = 1
    /\ Len(ret.result.value) = 1
    /\ ret.result.value[1].text = batch.texts[2]
    /\ IsMeasurement(ret.result.value[1])
    /\ Len(analysis_history) = 2

-----------------------------------------------------------------------------
(* Claim on the connection, under SpecFailedConnect *)

\* C21: the agent's analyze_sentiment contacts the provider only after a
\* connect() that returned True: as long as every connect() returned False
\* no call is suspended on the provider, and every process_user_input call
\* gets the absent measurement of "Not connected".
C21_NoProviderCallUnlessConnected ==
    /\ \A i \in 1 .. MaxCalls : tasks[i].pc # "awaiting"
    /\ ret.op = "process_user_input" =>
          /\ Returned(ret.result)
          /\ ret.result.value[2] = None
    /\ \A k \in 1 .. Len(conversation_history) :
          conversation_history[k].sentiment = None

-----------------------------------------------------------------------------
(* Claims on interactive_chat, under SpecChat *)

\* the lines of ChatLines that are a quit command, those that are the
\* summary command, the empty ones, and the others, which are messages
QuitLines == {"quit", " Exit ", "BYE"}
SummaryLines == {"summary"}
EmptyLines == {"", " "}
MessageLines == ChatLines \ (QuitLines \cup SummaryLines \cup EmptyLines)

\* the event ends the chat
Terminating(e) ==
    \/ e.kind = "KeyboardInterrupt"
    \/ e.kind = "line" /\ e.text \in QuitLines

\* the event is a line that is a message
IsMessage(e) == e.kind = "line" /\ e.text \in MessageLines

MessagesEntered == {k \in 1 .. Len(trace) : IsMessage(trace[k])}

\* C22: interactive_chat ends exactly when the user enters quit, exit or
\* bye (in any case, blanks around it ignored) or a keyboard interrupt
\* occurs: no other line and no exception raised while a message is
\* processed ends the loop, which goes on with the next input.
C22_ChatEndsOnQuitOnly ==
    /\ frame.pc = "ended" <=>
          (trace # <<>> /\ Terminating(trace[Len(trace)]))
    /\ \A k \in 1 .. (Len(trace) - 1) : ~Terminating(trace[k])
    /\ frame.pc = "awaiting" =>
          /\ IsMessage(trace[Len(trace)])
          /\ \E i \in 1 .. MaxCalls : tasks[i].pc = "awaiting"
    /\ frame.pc \in {"input", "awaiting", "ended"}
    /\ (ret.op = "process_user_input" /\ ~Returned(ret.result)) =>
          frame.pc \in {"input", "awaiting"} \/ Terminating(trace[Len(trace)])

\* a message whose processing raised, then a line that is no command, then
\* a quit command in capitals
C22_Witness ==
    /\ Len(trace) = 3
    /\ IsMessage(trace[1])
    /\ tasks[1].pc = "raise"
    /\ trace[2] = [kind |-> "line", text |-> " "]
    /\ trace[3] = [kind |-> "line", text |-> "BYE"]
    /\ frame.pc = "ended"

\* C23: the summary command, an empty line and the quit commands leave
\* conversation_history as it is, every other line makes exactly one
\* process_user_input call, and the history is never longer than the number
\* of lines entered that are neither a command nor empty.
C23_OneCallPerMessageLine ==
    /\ [][Len(trace') = Len(trace) + 1 =>
             IF IsMessage(trace'[Len(trace')])
             THEN /\ Cardinality(CallsMade') = Cardinality(CallsMade) + 1
                  /\ tasks'[Cardinality(CallsMade')].user_message
                        \in {"I love this", "quit it"}
             ELSE /\ conversation_history' = conversation_history
                  /\ CallsMade' = CallsMade]_vars
    /\ [](Cardinality(CallsMade) = Cardinality(MessagesEntered))
    /\ [](Len(conversation_history) <= Cardinality(MessagesEntered))

C23_Witness ==
    /\ Len(trace) = 3
    /\ trace[1] = [kind |-> "line", text |-> "summary"]
    /\ trace[2] = [kind |-> "line", text |-> " "]
    /\ IsMessage(trace[3])
    /\ Len(conversation_history) = 1
    /\ Cardinality(CallsMade) = 1

-----------------------------------------------------------------------------
(* Claim on responder and summary together, under SpecSummary *)

\* the records of the agent that hold a measurement
MeasuredRecords ==
    {k \in 1 .. Len(conversation_history) :
        conversation_history[k].sentiment # None}

\* the records whose reply, as generate_empathetic_response made it, begins
\* with one of the base replies
RepliedWith(replies) ==
    {k \in MeasuredRecords :
        \E r \in replies : StartsWith(conversation_history[k].agent_response, r)}

\* C24: a measurement is counted as Positive, Negative or Neutral by
\* get_conversation_summary exactly when generate_empathetic_response
\* answered it with a positive, negative or neutral reply, so that the
\* three counts add up to the number of present measurements.
C24_CountsAgreeWithBuckets ==
    (/\ class = "FixedSmartSentimentAgent"
     /\ ret.op = "get_conversation_summary"
     /\ MeasuredRecords # {})
    =>
    /\ Returned(ret.result)
    /\ LET r == ret.result.value
       IN  /\ r.pos_count =
                 Cardinality(RepliedWith({StrongPositiveReply, MildPositiveReply}))
           /\ r.neg_count =
                 Cardinality(RepliedWith({StrongNegativeReply, MildNegativeReply}))
           /\ r.neu_count = Cardinality(RepliedWith({NeutralReply}))
           /\ r.pos_count + r.neg_count + r.neu_count
                 = Cardinality(MeasuredRecords)

\* the same over histories whose measurements all carry one of the three
\* tags of the data model
C24_CountsAgreeWithinDataModel ==
    (\A k \in MeasuredRecords :
        conversation_history[k].sentiment.assessment
            \in {"positive", "negative", "neutral"})
    => C24_CountsAgreeWithBuckets

-----------------------------------------------------------------------------
(* Claims on the test scripts *)

\* the tests of the trace that passed: they returned True
PassedTests ==
    {k \in 1 .. Len(trace) :
        trace[k].kind = "test" /\ trace[k].outcome = Return(True)}

\* C25: comprehensive_test runs its four tests once each in the order HTTP,
\* SSE, Gradio API, MCP whatever the earlier ones did, records a test that
\* raised as failed, ends with four results, 0 <= passed <= total = 4, and
\* prints exactly one of the three verdicts.
C25_FourTestsOneVerdict ==
    /\ Len(trace) <= 4
    /\ Len(frame.results) = Len(trace)
    /\ \A k \in 1 .. Len(trace) :
          /\ trace[k].name =
                CASE k = 1 -> "Basic HTTP connectivity"
                  [] k = 2 -> "SSE endpoint"
                  [] k = 3 -> "Gradio API direct"
                  [] k = 4 -> "MCP connection"
          /\ frame.results[k].test_name = trace[k].name
          /\ frame.results[k].success = (IF k \in PassedTests THEN True ELSE False)
    /\ frame.pc = "done" <=> Len(trace) = 4
    /\ frame.pc = "done" =>
          /\ frame.total = 4
          /\ frame.passed = Cardinality(PassedTests)
          /\ frame.passed \in 0 .. frame.total
          /\ frame.verdict \in
                {"All tests passed", "Some tests passed", "All tests failed"}
          /\ frame.verdict = "All tests passed" <=> PassedTests = 1 .. 4
          /\ frame.verdict = "All tests failed" <=> PassedTests = {}

\* the second test raised, the third failed, the others passed
C25_Witness ==
    /\ frame.pc = "done"
    /\ trace[1].outcome = Return(True)
    /\ ~Returned(trace[2].outcome)
    /\ trace[3].outcome = Return(False)
    /\ trace[4].outcome = Return(True)
    /\ frame.passed = 2
    /\ frame.verdict = "Some tests passed"

\* the positions of the trace where a test ended
TestsRun ==
    LET IsTest(e) == e.kind = "test"
    IN  SelectSeq(trace, IsTest)

\* the GETs of discover_gradio_endpoints
InfoGets ==
    LET IsGet(e) == e.kind = "get"
    IN  SelectSeq(trace, IsGet)

ProbeSucceeded ==
    /\ trace # <<>>
    /\ trace[1].answer.kind = "response"
    /\ trace[1].answer.status = 200

\* C26: comprehensive_gradio_test runs no test when the connectivity probe
\* raises or is not answered with status 200; otherwise it runs its four
\* tests once each in the listed order whatever they do, and it declares the
\* server working iff at least one recorded result is a pass.
C26_ProbeThenFourTests ==
    /\ frame.pc = "probe" <=> trace = <<>>
    /\ trace # <<>> => trace[1].kind = "probe"
    /\ (trace # <<>> /\ ~ProbeSucceeded) =>
          /\ frame.pc = "returned"
          /\ Len(trace) = 1
    /\ frame.pc = "returned" => ~ProbeSucceeded
    /\ Len(TestsRun) <= 4
    /\ \A k \in 1 .. Len(TestsRun) :
          TestsRun[k].name =
             CASE k = 1 -> "API Discovery"
               [] k = 2 -> "Gradio Client"
               [] k = 3 -> "Manual API Calls"
               [] k = 4 -> "MCP Connection"
    /\ frame.pc = "done" <=> Len(TestsRun) = 4
    /\ frame.pc = "done" =>
          /\ Len(frame.results) = 4
          /\ \A k \in 1 .. 4 :
                /\ frame.results[k].test_name = TestsRun[k].name
                /\ ~Returned(TestsRun[k].outcome) =>
                      frame.results[k].success = False
                /\ Returned(TestsRun[k].outcome) =>
                      frame.results[k].success = TestsRun[k].outcome.value
          /\ frame.working <=>
                \E k \in 1 .. 4 : frame.results[k].success \notin {False, None, [x \in {} |-> ""]}

\* the discovery found nothing, the second test crashed, the third failed
\* and the last one passed
C26_Witness ==
    /\ frame.pc = "done"
    /\ TestsRun[1].outcome = Return(None)
    /\ ~Returned(TestsRun[2].outcome)
    /\ TestsRun[3].outcome = Return(False)
    /\ TestsRun[4].outcome = Return(True)
    /\ frame.working

\* the GET was answered with status 200 and a JSON body
FoundInfo(e) ==
    /\ e.answer.kind = "response"
    /\ e.answer.status = 200
    /\ e.answer.body.text = "json"

\* C27: the API Discovery step is recorded as passed exactly when an info
\* endpoint answered with status 200 and a JSON body and as failed exactly
\* when none of the four did; the info endpoints are probed in the listed
\* order, the probing stops at the first such answer, and an error on one
\* endpoint does not prevent probing the next.
C27_DiscoveryPassesIffFound ==
    /\ \A k \in 1 .. Len(InfoGets) :
          /\ InfoGets[k].url =
                CASE k = 1 -> "/info"
                  [] k = 2 -> "/config"
                  [] k = 3 -> "/api"
                  [] k = 4 -> "/api/v1/info"
          /\ FoundInfo(InfoGets[k]) => k = Len(InfoGets)
    /\ Len(TestsRun) >= 1 =>
          /\ ~FoundInfo(InfoGets[Len(InfoGets)]) => Len(InfoGets) = 4
          /\ frame.results[1].success \notin {False, None, [x \in {} |-> ""]}
                <=> FoundInfo(InfoGets[Len(InfoGets)])

Answered200(e) == e.answer.kind = "response" /\ e.answer.status = 200

\* C28: test_manual_api_calls tries the combinations endpoint by endpoint,
\* four payloads each, returns True at the first attempt that is answered
\* with status 200 and makes no attempt after it, and returns False only
\* when all 20 attempts have failed; an answer that is not 200 and an
\* exception do not prevent the later attempts.
C28_TrueAtFirst200 ==
    /\ \A k \in 1 .. Len(trace) :
          /\ trace[k].endpoint =
                CASE k \in 1 .. 4 -> "/api/predict"
                  [] k \in 5 .. 8 -> "/call/predict"
                  [] k \in 9 .. 12 -> "/run/predict"
                  [] k \in 13 .. 16 -> "/predict"
                  [] k \in 17 .. 20 -> "/api/v1/predict"
          /\ trace[k].payload = payloads[((k - 1) % 4) + 1]
          /\ Answered200(trace[k]) =>
                /\ k = Len(trace)
                /\ frame = [pc |-> "returned", value |-> True]
    /\ frame.pc = "returned" =>
          IF frame.value = True
          THEN Answered200(trace[Len(trace)])
          ELSE Len(trace) = 20

\* the same, where an attempt counts as answered when it was answered with
\* status 200 and a body that is the JSON of an object
C28_TrueAtFirstJson200 ==
    /\ \A k \in 1 .. Len(trace) :
          (/\ Answered200(trace[k])
           /\ trace[k].answer.body.text = "json"
           /\ trace[k].answer.body.value # None) =>
                /\ k = Len(trace)
                /\ frame = [pc |-> "returned", value |-> True]
    /\ frame.pc = "returned" =>
          IF frame.value = True
          THEN Answered200(trace[Len(trace)])
          ELSE Len(trace) = 20

-----------------------------------------------------------------------------
(* Claims on analyze_file_changes, under SpecServer *)

\* the git commands that were run, in order
CommandsRun ==
    LET IsRun(e) == e.kind = "run"
    IN  SelectSeq(trace, IsRun)

\* the function has returned a result that is no error
ReturnedResult ==
    /\ frame.pc = "returned"
    /\ "error" \notin DOMAIN frame.value.value

DiffStdout == CommandsRun[1].run.stdout

\* the lines of the output of git diff
DiffLines == IF DiffStdout = "" THEN <<"">> ELSE split(DiffStdout)

\* C29: truncated is true iff the diff has more lines than max_diff_lines;
\* total_lines is the number of lines of the diff before truncation; a
\* truncated diff is the first max_diff_lines lines followed by the
\* truncation notice, a diff that is not truncated is returned as it is;
\* with include_diff false the diff field holds the hint while total_lines
\* and truncated are reported all the same.
C29_TruncationReport ==
    ReturnedResult =>
        LET r == frame.value.value
            max == frame.max_diff_lines
            n == Len(DiffLines)
        IN  /\ r.truncated <=> n > max
            /\ r.total_lines = n
            /\ (frame.include_diff /\ r.truncated) =>
                  r.diff = join(SubSeq(DiffLines, 1, IF max > 0 THEN max ELSE 0))
                              \o "\n\n... Output truncated. Showing "
                              \o ToString(max) \o " of " \o ToString(n)
                              \o " lines ..."
            /\ (frame.include_diff /\ ~r.truncated) => r.diff = DiffStdout
            /\ ~frame.include_diff =>
                  r.diff = "Use include_diff = True to see diff"

\* the same for every max_diff_lines that is not negative
C29_TruncationReportFromZero ==
    frame.max_diff_lines >= 0 => C29_TruncationReport

\* C30: analyze_file_changes does not raise; when git diff exits with a
\* return code that is not zero the result carries the key error and
\* neither git diff --stat nor git diff --name-status is run; an exception
\* raised by a command is returned as a result with the key error; when
\* the roots cannot be obtained the commands run in the default directory.
C30_ErrorsAreReturned ==
    /\ frame.pc \in {"roots", "diff", "stat", "files", "returned"}
    /\ (CommandsRun # <<>> /\ CommandsRun[1].run.kind = "completed"
            /\ CommandsRun[1].run.returncode # 0) =>
          /\ Len(CommandsRun) = 1
          /\ frame.pc = "returned"
          /\ "error" \in DOMAIN frame.value.value
    /\ (CommandsRun # <<>> /\ CommandsRun[Len(CommandsRun)].run.kind = "raise") =>
          /\ frame.pc = "returned"
          /\ "error" \in DOMAIN frame.value.value
    /\ (trace # <<>> /\ trace[1].answer.kind = "raise") =>
          /\ frame.pc # "returned" \/ CommandsRun # <<>>
          /\ \A k \in 1 .. Len(CommandsRun) : CommandsRun[k].cwd = None

\* the same, where git diff has failed when its return code is not zero
\* and it wrote to stderr
C30_ErrorsWithStderrAreReturned ==
    /\ (CommandsRun # <<>> /\ CommandsRun[1].run.kind = "completed"
            /\ CommandsRun[1].run.returncode # 0
            /\ CommandsRun[1].run.stderr # "") =>
          /\ Len(CommandsRun) = 1
          /\ frame.pc = "returned"
          /\ "error" \in DOMAIN frame.value.value
    /\ (CommandsRun # <<>> /\ CommandsRun[Len(CommandsRun)].run.kind = "raise") =>
          /\ frame.pc = "returned"
          /\ "error" \in DOMAIN frame.value.value
    /\ (trace # <<>> /\ trace[1].answer.kind = "raise") =>
          /\ frame.pc # "returned" \/ CommandsRun # <<>>
          /\ \A k \in 1 .. Len(CommandsRun) : CommandsRun[k].cwd = None

=============================================================================
